---- MODULE Spec2Model ----
(***************************************************************************)
(* A model of the oxidized-lox tree-walking interpreter: the Environment   *)
(* frame chain, the runtime values, the static Resolver and the            *)
(* Interpreter's statement executor and expression evaluator.              *)
(*                                                                         *)
(* Rc<RefCell<Environment>> is an index into the heap `frames` (0 is the   *)
(* None link); Rc<Instance> is an index into the heap `instances`.         *)
(***************************************************************************)
EXTENDS Integers, Sequences, FiniteSets, TLC

VARIABLES
    frames,             \* a heap of Environment { values, enclosing } (SpecEnv)
    env_call,           \* the last Environment method called on it (SpecEnv)
    program,            \* the parsed program handed to the resolver and to interpret
    phase,              \* "resolve", "interpret" or "done"
    pc,                 \* index of the next top-level statement of interpret
    resolver_error,     \* the Result of Resolver::resolve_statements
    error,              \* the Result of Interpreter::interpret
    interpreter,        \* the Interpreter, its heaps and the record of its run
    scanner,            \* the Scanner over a source text (SpecScanner)
    tokens,             \* the Vec<Token> that Scanner::scan_tokens has collected so far
    scan_result         \* "scanning", then the ScannerResult of scan_tokens

run_vars == <<program, phase, pc, resolver_error, error, interpreter>>

vars == <<frames, env_call, run_vars, scanner, tokens, scan_result>>

(***************************************************************************)
(* Bounds                                                                  *)
(***************************************************************************)
MaxFrames == 3

EnvNames == {"a"}

(***************************************************************************)
(* LoxValue (interpreter/value.rs)                                         *)
(***************************************************************************)
Nil == [t |-> "Nil"]

Boolean(b) == [t |-> "Boolean", b |-> b]

Number(n) == [t |-> "Number", n |-> n]

String(s) == [t |-> "String", s |-> s]

Callable(c) == [t |-> "Callable", c |-> c]

Instance(id) == [t |-> "Instance", id |-> id]

\* Option::None of an Option<LoxValue>
None == [t |-> "None"]

EnvValues == {Number(1), Number(2)}

(***************************************************************************)
(* Environment (interpreter/environment.rs)                                *)
(***************************************************************************)
\* HashMap::new()
EmptyMap == [n \in {} |-> Nil]

\* HashMap::get(name).cloned()
MapGet(m, name) == IF name \in DOMAIN m THEN m[name] ELSE None

\* HashMap::insert(name, value)
MapInsert(m, name, value) == [n \in DOMAIN m \cup {name} |-> IF n = name THEN value ELSE m[n]]

new == [values |-> EmptyMap, enclosing |-> 0]

new_enclosed(enclosing) == [values |-> EmptyMap, enclosing |-> enclosing]

\* Rc::new(RefCell::new(env)): the heap with env appended; its index is Len + 1
Alloc(fs, env) == Append(fs, env)

define(fs, self, name, value) ==
    [fs EXCEPT ![self].values = MapInsert(@, name, value)]

RECURSIVE AncestorLoop(_, _, _)
\* the `for _ in 0..distance` loop of ancestor
AncestorLoop(fs, environment, n) ==
    IF n = 0 THEN environment
    ELSE AncestorLoop(fs, IF environment = 0 THEN 0 ELSE fs[environment].enclosing, n - 1)

ancestor(fs, self, distance) == AncestorLoop(fs, fs[self].enclosing, distance)

\* The frame whose map assign_at writes: the ancestor, or self when it is None
AssignTarget(fs, self, distance) ==
    LET a == ancestor(fs, self, distance) IN IF a # 0 THEN a ELSE self

\* assign_at with HashMap::insert in place of the Entry::Occupied test
assign_at_inserting(fs, self, name, value, distance) ==
    LET target == AssignTarget(fs, self, distance) IN
    [frames |-> [fs EXCEPT ![target].values = MapInsert(@, name, value)], ret |-> TRUE]

assign_at(fs, self, name, value, distance) ==
    LET target == AssignTarget(fs, self, distance) IN
    IF name \in DOMAIN fs[target].values
    THEN [frames |-> [fs EXCEPT ![target].values = MapInsert(@, name, value)], ret |-> TRUE]
    ELSE [frames |-> fs, ret |-> FALSE]

\* The frame whose map get_at reads
GetTarget(fs, self, distance) ==
    IF distance = 0 THEN self
    ELSE LET a == ancestor(fs, self, distance) IN IF a # 0 THEN a ELSE self

get_at(fs, self, name, distance) == MapGet(fs[GetTarget(fs, self, distance)].values, name)

RECURSIVE get(_, _, _)
get(fs, self, name) ==
    IF name \in DOMAIN fs[self].values THEN fs[self].values[name]
    ELSE IF fs[self].enclosing # 0 THEN get(fs, fs[self].enclosing, name)
    ELSE None

(***************************************************************************)
(* Expression and Statement (syntax/expression.rs, syntax/statement.rs).   *)
(* A Token is its lexeme and its line; an expression is a record, so two   *)
(* expressions are equal (and hash alike) exactly when their fields are,   *)
(* as the derived PartialEq, Eq and Hash of Expression compare them.       *)
(***************************************************************************)
\* Option::None of an Option<Expression> or Option<Box<Statement>>
Absent == [k |-> "Absent"]

ETrue == [k |-> "True"]

EFalse == [k |-> "False"]

ENil == [k |-> "Nil"]

ENumber(n) == [k |-> "Number", n |-> n]

EString(s) == [k |-> "String", s |-> s]

EGrouping(e) == [k |-> "Grouping", expression |-> e]

EUnary(op, e) == [k |-> "Unary", operator |-> op, expression |-> e]

EBinary(l, op, r) == [k |-> "Binary", left |-> l, operator |-> op, right |-> r]

EVar(name, line) == [k |-> "Var", name |-> name, line |-> line]

EThis(line) == [k |-> "This", line |-> line]

EAssignment(name, value, line) == [k |-> "Assignment", name |-> name, value |-> value, line |-> line]

EOr(l, r) == [k |-> "Or", left |-> l, right |-> r]

EAnd(l, r) == [k |-> "And", left |-> l, right |-> r]

ECall(callee, args, line) == [k |-> "Call", callee |-> callee, args |-> args, line |-> line]

EGet(e, name) == [k |-> "Get", expression |-> e, name |-> name]

ESet(object, name, value) == [k |-> "Set", object |-> object, name |-> name, value |-> value]

SExpression(e) == [k |-> "Expression", expression |-> e]

SPrint(e) == [k |-> "Print", expression |-> e]

SVariableDeclaration(name, initializer) ==
    [k |-> "VariableDeclaration", name |-> name, initializer |-> initializer]

\* statement::Function { name, parameters, body }
Function(name, parameters, body) == [name |-> name, parameters |-> parameters, body |-> body]

SFunctionDeclaration(function) == [k |-> "FunctionDeclaration", function |-> function]

SBlock(statements) == [k |-> "Block", statements |-> statements]

SIf(condition, then_branch, else_branch) ==
    [k |-> "If", condition |-> condition, then_branch |-> then_branch, else_branch |-> else_branch]

SWhile(condition, body) == [k |-> "While", condition |-> condition, body |-> body]

SFor(initializer, condition, increment, body) ==
    [k |-> "For", initializer |-> initializer, condition |-> condition,
     increment |-> increment, body |-> body]

SClassDeclaration(name, methods, super_class) ==
    [k |-> "ClassDeclaration", name |-> name, methods |-> methods, super_class |-> super_class]

SReturn(e) == [k |-> "Return", expression |-> e]

SBreak == [k |-> "Break"]

SContinue == [k |-> "Continue"]

(***************************************************************************)
(* Resolver (resolver.rs).  A resolver state is the struct's fields, the   *)
(* interpreter's depth table it writes through Interpreter::resolve, and   *)
(* the Result of the call that produced it.                                *)
(***************************************************************************)
ResolverOk == [e |-> "Ok"]

\* a panic of the process (todo!(), panic!())
Panic(what) == [e |-> "Panic", what |-> what]

\* Interpreter::resolve: locals.insert(expression.clone(), depth)
resolve(locals, expression, depth) == MapInsert(locals, expression, depth)

Resolver_new ==
    [scopes |-> <<>>, function_type |-> "None", class_type |-> "None",
     locals |-> EmptyMap, err |-> ResolverOk]

begin_scope(rs) == [rs EXCEPT !.scopes = Append(@, EmptyMap)]

end_scope(rs) ==
    IF rs.scopes = <<>> THEN rs
    ELSE [rs EXCEPT !.scopes = SubSeq(@, 1, Len(@) - 1)]

Resolver_define(rs, name) ==
    IF rs.scopes = <<>> THEN rs
    ELSE [rs EXCEPT !.scopes[Len(rs.scopes)] = MapInsert(@, name, TRUE)]

\* declare that overwrites an entry of the innermost scope instead of failing
Resolver_declare_overwriting(rs, name) ==
    IF rs.scopes = <<>> THEN rs
    ELSE [rs EXCEPT !.scopes[Len(rs.scopes)] = MapInsert(@, name, FALSE)]

Resolver_declare(rs, name) ==
    IF rs.scopes = <<>> THEN rs
    ELSE IF name \in DOMAIN rs.scopes[Len(rs.scopes)]
    THEN [rs EXCEPT !.err = [e |-> "VariableAlreadyExists", name |-> name]]
    ELSE [rs EXCEPT !.scopes[Len(rs.scopes)] = MapInsert(@, name, FALSE)]

resolve_local(rs, expr, name) ==
    LET holders == {i \in DOMAIN rs.scopes : name \in DOMAIN rs.scopes[i]} IN
    IF holders = {} THEN rs
    ELSE LET innermost == CHOOSE i \in holders : \A j \in holders : j <= i IN
         [rs EXCEPT !.locals = resolve(@, expr, Len(rs.scopes) - innermost)]

\* a.and(b) of two Results computed one after the other on the same resolver
AndResult(first, second) ==
    [second EXCEPT !.err = IF first.err # ResolverOk THEN first.err ELSE second.err]

\* the resolver as `first` left it, for a call whose Result does not depend on first's
Continue(first) == [first EXCEPT !.err = ResolverOk]

RECURSIVE resolve_expression(_, _)
RECURSIVE ResolveArgs(_, _, _)
RECURSIVE resolve_statement(_, _)
RECURSIVE ResolveFrom(_, _, _)
RECURSIVE resolve_function(_, _, _)
RECURSIVE ResolveMethods(_, _, _)

\* the `for arg in args` loop of Expression::Call, from args[i]
ResolveArgs(rs, args, i) ==
    IF i > Len(args) THEN rs
    ELSE LET r == resolve_expression(rs, args[i]) IN
         IF r.err # ResolverOk THEN r ELSE ResolveArgs(r, args, i + 1)

resolve_expression(rs, expr) ==
    CASE expr.k = "Var" ->
            IF /\ rs.scopes # <<>>
               /\ expr.name \in DOMAIN rs.scopes[Len(rs.scopes)]
               /\ rs.scopes[Len(rs.scopes)][expr.name] = FALSE
            THEN [rs EXCEPT !.err = [e |-> "NotInitialized", name |-> expr.name]]
            ELSE resolve_local(rs, expr, expr.name)
      [] expr.k = "This" ->
            IF rs.class_type # "Class"
            THEN [rs EXCEPT !.err = [e |-> "InvalidThis", line |-> expr.line]]
            ELSE resolve_local(rs, expr, "this")
      [] expr.k \in {"Binary", "Or", "And"} ->
            LET l == resolve_expression(rs, expr.left) IN
            AndResult(l, resolve_expression(Continue(l), expr.right))
      [] expr.k \in {"Grouping", "Unary", "Get"} ->
            resolve_expression(rs, expr.expression)
      [] expr.k = "Assignment" ->
            LET v == resolve_expression(rs, expr.value) IN
            IF v.err # ResolverOk THEN v ELSE resolve_local(v, expr, expr.name)
      [] expr.k = "Call" ->
            LET c == resolve_expression(rs, expr.callee) IN
            IF c.err # ResolverOk THEN c ELSE ResolveArgs(c, expr.args, 1)
      [] expr.k = "Set" ->
            LET o == resolve_expression(rs, expr.object) IN
            AndResult(o, resolve_expression(Continue(o), expr.value))
      [] OTHER -> rs

\* the `for statement in statements` loop of resolve_statements, from statements[i]
ResolveFrom(rs, statements, i) ==
    IF i > Len(statements) THEN rs
    ELSE LET r == resolve_statement(rs, statements[i]) IN
         IF r.err # ResolverOk THEN r ELSE ResolveFrom(r, statements, i + 1)

resolve_statements(rs, statements) == ResolveFrom(rs, statements, 1)

RECURSIVE DeclareParams(_, _, _)
\* the `for param in parameters` loop of resolve_function, from parameters[i]
DeclareParams(rs, parameters, i) ==
    IF i > Len(parameters) THEN rs
    ELSE LET d == Resolver_declare(rs, parameters[i]) IN
         IF d.err # ResolverOk THEN d
         ELSE DeclareParams(Resolver_define(d, parameters[i]), parameters, i + 1)

resolve_function(rs, parameters, body) ==
    LET entered == begin_scope([rs EXCEPT !.function_type = "Function"])
        p == DeclareParams(entered, parameters, 1)
        b == resolve_statements(p, body)
    IN  IF p.err # ResolverOk THEN p
        ELSE IF b.err # ResolverOk THEN b
        ELSE [end_scope(b) EXCEPT !.function_type = "None"]

\* the `for method in methods` loop of Statement::ClassDeclaration, from methods[i]
ResolveMethods(rs, methods, i) ==
    IF i > Len(methods) THEN rs
    ELSE LET r == resolve_function([rs EXCEPT !.function_type = "Method"],
                                   methods[i].parameters, methods[i].body) IN
         IF r.err # ResolverOk THEN r ELSE ResolveMethods(r, methods, i + 1)

resolve_statement(rs, statement) ==
    CASE statement.k = "Block" ->
            LET b == resolve_statements(begin_scope(rs), statement.statements) IN
            IF b.err # ResolverOk THEN b ELSE end_scope(b)
      [] statement.k = "VariableDeclaration" ->
            LET d == Resolver_declare(rs, statement.name)
                i == IF statement.initializer = Absent THEN d
                     ELSE resolve_expression(d, statement.initializer)
            IN  IF d.err # ResolverOk THEN d
                ELSE IF i.err # ResolverOk THEN i
                ELSE Resolver_define(i, statement.name)
      [] statement.k = "ClassDeclaration" ->
            LET d == Resolver_declare(rs, statement.name)
                current_class == rs.class_type
                opened == begin_scope([Resolver_define(d, statement.name)
                                            EXCEPT !.class_type = "Class"])
                this == [opened EXCEPT !.scopes[Len(opened.scopes)] = MapInsert(@, "this", TRUE)]
                m == ResolveMethods(this, statement.methods, 1)
            IN  IF d.err # ResolverOk THEN d
                ELSE IF m.err # ResolverOk THEN m
                ELSE [end_scope(m) EXCEPT !.class_type = current_class]
      [] statement.k \in {"Expression", "Print"} ->
            resolve_expression(rs, statement.expression)
      [] statement.k = "FunctionDeclaration" ->
            LET d == Resolver_declare(rs, statement.function.name) IN
            IF d.err # ResolverOk THEN d
            ELSE resolve_function(Resolver_define(d, statement.function.name),
                                  statement.function.parameters, statement.function.body)
      [] statement.k = "If" ->
            LET c == resolve_expression(rs, statement.condition)
                t == resolve_statement(c, statement.then_branch)
            IN  IF c.err # ResolverOk THEN c
                ELSE IF t.err # ResolverOk THEN t
                ELSE IF statement.else_branch = Absent THEN t
                ELSE resolve_statement(t, statement.else_branch)
      [] statement.k = "While" ->
            LET c == resolve_expression(rs, statement.condition) IN
            AndResult(c, resolve_statement(Continue(c), statement.body))
      [] statement.k = "For" -> [rs EXCEPT !.err = Panic("todo")]
      [] statement.k = "Return" ->
            IF rs.function_type \notin {"Function", "Method"}
            THEN [rs EXCEPT !.err = [e |-> "ReturnNotInFunction"]]
            ELSE IF statement.expression = Absent THEN rs
            ELSE resolve_expression(rs, statement.expression)
      [] OTHER -> rs

(***************************************************************************)
(* Class, Instance, Field and truthiness (interpreter/value.rs)            *)
(***************************************************************************)
is_truthy(v) ==
    CASE v.t = "Nil" -> FALSE
      [] v.t = "Boolean" -> v.b
      [] v.t = "Number" -> v.n # 0
      [] OTHER -> TRUE

\* Class::new
Class(name, methods, super_class) ==
    [name |-> name, methods |-> methods, super_class |-> super_class]

RECURSIVE find_method(_, _)
\* find_method that asks the superclass chain before the class's own methods
find_method_super_first(class, name) ==
    LET inherited == IF class.super_class # Absent THEN find_method(class.super_class, name)
                     ELSE None
    IN  IF inherited # None THEN inherited
        ELSE IF name \in DOMAIN class.methods THEN class.methods[name]
        ELSE None

find_method(class, name) ==
    IF name \in DOMAIN class.methods THEN class.methods[name]
    ELSE IF class.super_class # Absent THEN find_method(class.super_class, name)
    ELSE None

\* Instance::new
Instance_new(class) == [class |-> class, fields |-> EmptyMap]

\* Instance::get, on the instance heap
Instance_get(instances, id, key) ==
    IF key \in DOMAIN instances[id].fields
    THEN [f |-> "Value", value |-> instances[id].fields[key]]
    ELSE LET method == find_method(instances[id].class, key) IN
         IF method # None THEN [f |-> "Method", method |-> method]
         ELSE [f |-> "Undefined"]

\* Instance::set that stores the field on every instance of the heap
Instance_set_shared(instances, id, key, value) ==
    [i \in DOMAIN instances |-> [instances[i] EXCEPT !.fields = MapInsert(@, key, value)]]

\* Instance::set, on the instance heap
Instance_set(instances, id, key, value) ==
    [instances EXCEPT ![id].fields = MapInsert(@, key, value)]

(***************************************************************************)
(* Callable and LoxFunction (interpreter/callable.rs)                      *)
(***************************************************************************)
Native(func, arity) == [kind |-> "Native", func |-> func, arity |-> arity]

LoxFunction(closure, name, is_initializer, params, block) ==
    [kind |-> "LoxFunction", closure |-> closure, name |-> name,
     is_initializer |-> is_initializer, params |-> params, block |-> block]

Constructor(class, arity) == [kind |-> "Constructor", class |-> class, arity |-> arity]

arity(callable) ==
    IF callable.kind = "LoxFunction" THEN Len(callable.params) ELSE callable.arity

\* bind that puts `this` into the method's declared closure instead of a fresh frame
bind_into_closure(fs, self, instance) ==
    [frames |-> define(fs, self.closure, "this", Instance(instance)),
     function |-> LoxFunction(self.closure, self.name, TRUE, self.params, self.block)]

\* LoxFunction::bind: the heap with the fresh `this` frame, and the bound function
bind(fs, self, instance) ==
    LET environment == [new_enclosed(self.closure) EXCEPT
                            !.values = MapInsert(@, "this", Instance(instance))]
    IN  [frames |-> Alloc(fs, environment),
         function |-> LoxFunction(Len(fs) + 1, self.name, TRUE, self.params, self.block)]

(***************************************************************************)
(* Native functions (src/interpreter/native.rs).  The host supplies the    *)
(* clock reading, the line on standard input and the random draw.          *)
(***************************************************************************)
NativeOk(v) == [err |-> "Ok", v |-> v]

NativeErr(cause) == [err |-> cause, v |-> Nil]

\* str::parse::<f64> on the literals the programs use
ParseFloat(s) ==
    CASE s = "0" -> NativeOk(Number(0))
      [] s = "1" -> NativeOk(Number(1))
      [] s = "2" -> NativeOk(Number(2))
      [] OTHER -> NativeErr("NumParse")

clock(host, args) ==
    IF host.now < 0 THEN NativeErr("SystemTime") ELSE NativeOk(Number(host.now))

read_line(host, args) ==
    IF host.stdin = "<io error>" THEN NativeErr("Io") ELSE NativeOk(String(host.stdin))

random(host, args) ==
    IF args[1].t # "Number" \/ args[2].t # "Number" THEN NativeOk(Nil)
    ELSE LET inf == IF args[1].n > args[2].n THEN args[2].n ELSE args[1].n
             sup == IF args[1].n > args[2].n THEN args[1].n ELSE args[2].n
         IN  IF inf = sup THEN NativeErr("Panic")
             ELSE NativeOk(Number(inf + (host.draw % (sup - inf))))

string_to_number(host, args) ==
    IF args[1].t # "String" THEN NativeOk(Nil) ELSE ParseFloat(args[1].s)

\* the call through the NativeFunc pointer
NativeFunc(func, host, args) ==
    CASE func = "clock" -> clock(host, args)
      [] func = "read_line" -> read_line(host, args)
      [] func = "random" -> random(host, args)
      [] func = "string_to_number" -> string_to_number(host, args)

(***************************************************************************)
(* Interpreter (interpreter.rs).  An interpreter state `st` holds the      *)
(* frame heap, the instance heap, environment_stack, locals, what was      *)
(* printed, and three records of the run: `reads`, one entry per           *)
(* lookup_variable that used a resolved distance, `calls`, one entry per   *)
(* function body entered, and `flows`, one entry per ControlFlow handed to *)
(* evaluate_lox_function or to interpret's loop.                           *)
(***************************************************************************)
globals == 1

Ok == [e |-> "Ok"]

Normal == [c |-> "Normal"]

BreakLoop == [c |-> "BreakLoop"]

ContinueLoop == [c |-> "ContinueLoop"]

Return(v) == [c |-> "Return", v |-> v]

\* Ok(value) of an InterpreterResult<LoxValue>
Value(st, v) == [st |-> st, err |-> Ok, v |-> v]

\* interpreter_error!, and a panic, of an InterpreterResult<LoxValue>
Error(st, e) == [st |-> st, err |-> e, v |-> Nil]

\* Ok(flow) of an InterpreterResult<ControlFlow>
Flow(st, cf) == [st |-> st, err |-> Ok, cf |-> cf]

\* interpreter_error!, and a panic, of an InterpreterResult<ControlFlow>
Abort(st, e) == [st |-> st, err |-> e, cf |-> Normal]

WrongArity(original, user) == [e |-> "WrongArity", original |-> original, user |-> user]

UndefinedVariable(name) == [e |-> "UndefinedVariable", name |-> name]

\* env_stack.last().unwrap()
Last(st) == st.environment_stack[Len(st.environment_stack)]

Push(st, env) == [st EXCEPT !.environment_stack = Append(@, env)]

Pop(st) == [st EXCEPT !.environment_stack = SubSeq(@, 1, Len(@) - 1)]

\* Interpreter::new, with load_native_functions
Interpreter_new(host) ==
    [frames |-> <<[values |-> [n \in {"clock", "read_line", "random", "string_to_number"} |->
                        CASE n = "clock" -> Callable(Native("clock", 0))
                          [] n = "read_line" -> Callable(Native("read_line", 0))
                          [] n = "random" -> Callable(Native("random", 2))
                          [] n = "string_to_number" -> Callable(Native("string_to_number", 1))],
                   enclosing |-> 0]>>,
     instances |-> <<>>,
     environment_stack |-> <<globals>>,
     locals |-> EmptyMap,
     output |-> <<>>,
     reads |-> <<>>,
     calls |-> <<>>,
     flows |-> <<>>,
     host |-> host]

lookup_variable(st, name, expression) ==
    IF expression \in DOMAIN st.locals
    THEN get_at(st.frames, Last(st), name, st.locals[expression])
    ELSE get(st.frames, globals, name)

\* the record of one lookup_variable that went through get_at
NoteRead(st, name, expression) ==
    IF expression \in DOMAIN st.locals
    THEN [st EXCEPT !.reads = Append(@,
            [name |-> name, self |-> Last(st), distance |-> st.locals[expression],
             target |-> GetTarget(st.frames, Last(st), st.locals[expression])])]
    ELSE st

\* the record of one Ok(ControlFlow) that reached the match of evaluate_lox_function or
\* the loop of interpret
NoteFlow(st, at, flow) ==
    IF flow.err # Ok THEN st
    ELSE [st EXCEPT !.flows = Append(@, [at |-> at, c |-> flow.cf.c])]

\* Display for LoxValue
Display(instances, v) ==
    CASE v.t = "Nil" -> "nil"
      [] v.t = "Boolean" -> IF v.b THEN "true" ELSE "false"
      [] v.t = "Number" -> ToString(v.n)
      [] v.t = "String" -> v.s
      [] v.t = "Callable" ->
            IF v.c.kind = "Native" THEN "<native fun>"
            ELSE IF v.c.kind = "LoxFunction" THEN "<fun " \o v.c.name \o ">"
            ELSE "<constructor " \o v.c.class.name \o ">"
      [] v.t = "Instance" -> "instanceof(" \o instances[v.id].class.name \o ")"

RECURSIVE Self(_)
RECURSIVE EvaluateArgs(_, _, _, _)
RECURSIVE ExecuteBlockFrom(_, _, _, _, _)
RECURSIVE WhileLoop(_, _)
RECURSIVE ForLoop(_, _)

\* self.evaluate(expression)
self_evaluate(st, expression) == Self([f |-> "evaluate", st |-> st, expression |-> expression])

\* self.execute_statement(statement, inside_loop)
self_execute_statement(st, statement, inside_loop) ==
    Self([f |-> "execute_statement", st |-> st, statement |-> statement,
          inside_loop |-> inside_loop])

\* self.interpret_call(function, arguments, paren)
self_interpret_call(st, function, arguments) ==
    Self([f |-> "interpret_call", st |-> st, function |-> function, arguments |-> arguments])

\* Interpreter::bind_method: the state with the bound function's frame, and the callable
bind_method(st, instance, method) ==
    IF method.kind = "LoxFunction"
    THEN LET b == bind(st.frames, method, instance) IN
         [st |-> [st EXCEPT !.frames = b.frames], callable |-> b.function]
    ELSE [st |-> st, callable |-> method]

evaluate_native(st, native_arity, func, arguments) ==
    IF native_arity # Len(arguments)
    THEN Error(st, WrongArity(native_arity, Len(arguments)))
    ELSE LET r == NativeFunc(func, st.host, arguments) IN
         IF r.err = "Ok" THEN Value(st, r.v)
         ELSE IF r.err = "Panic" THEN Error(st, Panic("random_range: empty range"))
         ELSE Error(st, [e |-> "Native", cause |-> r.err])

\* the `for arg in args` loop of Expression::Call, from args[i]; v is `arguments`
EvaluateArgs(st, args, i, arguments) ==
    IF i > Len(args) THEN Value(st, arguments)
    ELSE LET a == self_evaluate(st, args[i]) IN
         IF a.err # Ok THEN a ELSE EvaluateArgs(a.st, args, i + 1, Append(arguments, a.v))

evaluate_unary(st, token, expression) ==
    LET x == self_evaluate(st, expression) IN
    IF x.err # Ok THEN x
    ELSE CASE token = "Minus" /\ x.v.t = "Number" -> Value(x.st, Number(0 - x.v.n))
           [] token = "Bang" /\ x.v.t = "Boolean" -> Value(x.st, Boolean(~x.v.b))
           [] token = "Bang" /\ x.v.t = "Nil" -> Value(x.st, Boolean(TRUE))
           [] token = "Bang" /\ x.v.t = "Number" -> Value(x.st, Boolean(x.v.n = 0))
           [] OTHER -> Error(x.st, [e |-> "WrongUnaryOperands", op |-> token, operand |-> x.v])

evaluate_binary(st, first_operand, operator, second_operand) ==
    LET a == self_evaluate(st, first_operand)
        b == self_evaluate(a.st, second_operand)
        numbers == a.v.t = "Number" /\ b.v.t = "Number"
    IN  IF a.err # Ok THEN a
        ELSE IF b.err # Ok THEN b
        ELSE CASE numbers /\ operator = "Plus" -> Value(b.st, Number(a.v.n + b.v.n))
               [] numbers /\ operator = "Minus" -> Value(b.st, Number(a.v.n - b.v.n))
               [] numbers /\ operator = "Star" -> Value(b.st, Number(a.v.n * b.v.n))
               [] numbers /\ operator = "Slash" /\ b.v.n = 0 ->
                    Error(b.st, [e |-> "DivisionByZero"])
               [] numbers /\ operator = "Slash" /\ b.v.n # 0 /\ a.v.n % b.v.n = 0 ->
                    Value(b.st, Number(a.v.n \div b.v.n))
               [] numbers /\ operator = "EqualEqual" -> Value(b.st, Boolean(a.v.n = b.v.n))
               [] numbers /\ operator = "GreaterEqual" -> Value(b.st, Boolean(a.v.n >= b.v.n))
               [] numbers /\ operator = "Greater" -> Value(b.st, Boolean(a.v.n > b.v.n))
               [] numbers /\ operator = "LessEqual" -> Value(b.st, Boolean(a.v.n <= b.v.n))
               [] numbers /\ operator = "Less" -> Value(b.st, Boolean(a.v.n < b.v.n))
               [] a.v.t = "String" /\ operator = "Plus" ->
                    Value(b.st, String(a.v.s \o Display(b.st.instances, b.v)))
               [] OTHER -> Error(b.st, [e |-> "WrongBinaryOperands", left |-> a.v,
                                        op |-> operator, right |-> b.v])

\* execute_block applying `?` to the statement's result before popping the stack
ExecuteBlockFrom_returning_early(st, statements, i, env, inside_loop) ==
    IF i > Len(statements) THEN Flow(st, Normal)
    ELSE LET result == self_execute_statement(Push(st, env), statements[i], inside_loop)
             popped == Pop(result.st)
         IN  IF result.err # Ok THEN Abort(result.st, result.err)
             ELSE IF result.cf = Normal
             THEN ExecuteBlockFrom(popped, statements, i + 1, env, inside_loop)
             ELSE Flow(popped, result.cf)

ExecuteBlockFrom(st, statements, i, env, inside_loop) ==
    IF i > Len(statements) THEN Flow(st, Normal)
    ELSE LET result == self_execute_statement(Push(st, env), statements[i], inside_loop)
             popped == Pop(result.st)
         IN  IF result.err # Ok THEN Abort(popped, result.err)
             ELSE IF result.cf = Normal
             THEN ExecuteBlockFrom(popped, statements, i + 1, env, inside_loop)
             ELSE Flow(popped, result.cf)

execute_block(st, statements, env, inside_loop) ==
    ExecuteBlockFrom(st, statements, 1, env, inside_loop)

\* function_env.define(params[i], arg) for every argument
DefineParams(function_env, params, arguments) ==
    [function_env EXCEPT !.values =
        [n \in {params[i] : i \in DOMAIN params} |->
            arguments[CHOOSE i \in DOMAIN params :
                        params[i] = n /\ \A j \in DOMAIN params : params[j] = n => j <= i]]]

\* evaluate_lox_function running the body as if it were inside a loop
evaluate_lox_function_in_loop(st, arguments, function) ==
    IF Len(function.params) # Len(arguments)
    THEN Error(st, WrongArity(Len(function.params), Len(arguments)))
    ELSE LET function_env == DefineParams(new_enclosed(function.closure),
                                          function.params, arguments)
             entered == [st EXCEPT
                            !.frames = Alloc(@, function_env),
                            !.calls = Append(@, [name |-> function.name,
                                                 is_initializer |-> function.is_initializer,
                                                 closure |-> function.closure,
                                                 arguments |-> arguments])]
             flow == execute_block(entered, function.block, Len(st.frames) + 1, TRUE)
             matched == NoteFlow(flow.st, "evaluate_lox_function", flow)
         IN  IF flow.err # Ok THEN Error(flow.st, flow.err)
             ELSE IF function.is_initializer
             THEN LET this == get_at(flow.st.frames, function.closure, "init", 0) IN
                  Value(matched, IF this = None THEN Nil ELSE this)
             ELSE IF flow.cf.c = "Return" THEN Value(matched, flow.cf.v)
             ELSE Value(matched, Nil)

evaluate_lox_function(st, arguments, function) ==
    IF Len(function.params) # Len(arguments)
    THEN Error(st, WrongArity(Len(function.params), Len(arguments)))
    ELSE LET function_env == DefineParams(new_enclosed(function.closure),
                                          function.params, arguments)
             entered == [st EXCEPT
                            !.frames = Alloc(@, function_env),
                            !.calls = Append(@, [name |-> function.name,
                                                 is_initializer |-> function.is_initializer,
                                                 closure |-> function.closure,
                                                 arguments |-> arguments])]
             flow == execute_block(entered, function.block, Len(st.frames) + 1, FALSE)
             matched == NoteFlow(flow.st, "evaluate_lox_function", flow)
         IN  IF flow.err # Ok THEN Error(flow.st, flow.err)
             ELSE IF function.is_initializer
             THEN LET this == get_at(flow.st.frames, function.closure, "init", 0) IN
                  Value(matched, IF this = None THEN Nil ELSE this)
             ELSE IF flow.cf.c = "Return" THEN Value(matched, flow.cf.v)
             ELSE Value(matched, Nil)

interpret_call(st, function, arguments) ==
    CASE function.kind = "Native" ->
            evaluate_native(st, function.arity, function.func, arguments)
      [] function.kind = "LoxFunction" -> evaluate_lox_function(st, arguments, function)
      [] function.kind = "Constructor" ->
            IF function.arity # Len(arguments)
            THEN Error(st, WrongArity(0, Len(arguments)))
            ELSE LET instance == Len(st.instances) + 1
                     created == [st EXCEPT !.instances = Append(@, Instance_new(function.class))]
                     initializer == find_method(function.class, "init")
                     bound == bind_method(created, instance, initializer.c)
                     called == self_interpret_call(bound.st, bound.callable, arguments)
                 IN  IF initializer = None THEN Value(created, Instance(instance))
                     ELSE IF called.err # Ok THEN called
                     ELSE Value(called.st, Instance(instance))

evaluate(st, expression) ==
    CASE expression.k = "True" -> Value(st, Boolean(TRUE))
      [] expression.k = "False" -> Value(st, Boolean(FALSE))
      [] expression.k = "Number" -> Value(st, Number(expression.n))
      [] expression.k = "String" -> Value(st, String(expression.s))
      [] expression.k = "Nil" -> Value(st, Nil)
      [] expression.k = "Grouping" -> self_evaluate(st, expression.expression)
      [] expression.k = "Unary" -> evaluate_unary(st, expression.operator, expression.expression)
      [] expression.k = "Binary" ->
            evaluate_binary(st, expression.left, expression.operator, expression.right)
      [] expression.k = "Var" ->
            LET value == lookup_variable(st, expression.name, expression) IN
            IF value = None
            THEN Error(NoteRead(st, expression.name, expression),
                       UndefinedVariable(expression.name))
            ELSE Value(NoteRead(st, expression.name, expression), value)
      [] expression.k = "This" ->
            LET value == lookup_variable(st, "this", expression) IN
            IF value = None THEN Error(NoteRead(st, "this", expression), UndefinedVariable("this"))
            ELSE Value(NoteRead(st, "this", expression), value)
      [] expression.k = "Super" -> Error(st, Panic("todo"))
      [] expression.k = "Assignment" ->
            IF expression.value \notin DOMAIN st.locals THEN Error(st, Panic("todo"))
            ELSE LET distance == st.locals[expression.value]
                     last_env == Last(st)
                     value == self_evaluate(st, expression.value)
                     assigned == assign_at(value.st.frames, last_env, expression.name,
                                           value.v, distance)
                 IN  IF value.err # Ok THEN value
                     ELSE IF ~assigned.ret
                     THEN Error(value.st, UndefinedVariable(expression.name))
                     ELSE Value([value.st EXCEPT !.frames = assigned.frames], value.v)
      [] expression.k = "Or" ->
            LET left == self_evaluate(st, expression.left) IN
            IF left.err # Ok THEN left
            ELSE IF is_truthy(left.v) THEN left
            ELSE self_evaluate(left.st, expression.right)
      [] expression.k = "And" ->
            LET left == self_evaluate(st, expression.left) IN
            IF left.err # Ok THEN left
            ELSE IF ~is_truthy(left.v) THEN left
            ELSE self_evaluate(left.st, expression.right)
      [] expression.k = "Call" ->
            LET callee == self_evaluate(st, expression.callee)
                arguments == EvaluateArgs(callee.st, expression.args, 1, <<>>)
            IN  IF callee.err # Ok THEN callee
                ELSE IF callee.v.t # "Callable" THEN Error(callee.st, [e |-> "NotACallable"])
                ELSE IF arguments.err # Ok THEN arguments
                ELSE self_interpret_call(arguments.st, callee.v.c, arguments.v)
      [] expression.k = "Get" ->
            LET result == self_evaluate(st, expression.expression) IN
            IF result.err # Ok THEN result
            ELSE IF result.v.t # "Instance"
            THEN Error(result.st, [e |-> "InvalidInstance", name |-> expression.name])
            ELSE LET field == Instance_get(result.st.instances, result.v.id, expression.name) IN
                 (CASE field.f = "Value" -> Value(result.st, field.value)
                    [] field.f = "Method" ->
                         LET bound_method == bind_method(result.st, result.v.id, field.method.c)
                         IN  Value(bound_method.st, Callable(bound_method.callable))
                    [] field.f = "Undefined" ->
                         Error(result.st,
                               [e |-> "NotAProperty",
                                class_name |-> result.st.instances[result.v.id].class.name,
                                field |-> expression.name]))
      [] expression.k = "Set" ->
            LET object == self_evaluate(st, expression.object)
                value == self_evaluate(object.st, expression.value)
            IN  IF object.err # Ok THEN object
                ELSE IF object.v.t # "Instance"
                THEN Error(object.st, [e |-> "InvalidInstance", name |-> expression.name])
                ELSE IF value.err # Ok THEN value
                ELSE Value([value.st EXCEPT !.instances =
                                Instance_set(@, object.v.id, expression.name, value.v)],
                           value.v)

validate_superclass(st, expr) ==
    LET r == self_evaluate(st, expr) IN
    IF r.err # Ok THEN r
    ELSE IF r.v.t = "Callable" /\ r.v.c.kind = "Constructor" THEN Value(r.st, r.v.c.class)
    ELSE Error(r.st, Panic("Super class must be a class"))

\* the `while` loop of Statement::While handing a BreakLoop on to what encloses the loop
WhileLoop_passing_break(st, statement) ==
    LET condition == self_evaluate(st, statement.condition)
        body == self_execute_statement(condition.st, statement.body, TRUE)
    IN  IF condition.err # Ok THEN Abort(condition.st, condition.err)
        ELSE IF ~is_truthy(condition.v) THEN Flow(condition.st, Normal)
        ELSE IF body.err # Ok THEN body
        ELSE IF body.cf = BreakLoop THEN Flow(body.st, BreakLoop)
        ELSE IF body.cf.c = "Return" THEN body
        ELSE WhileLoop(body.st, statement)

\* the `while` loop of Statement::While
WhileLoop(st, statement) ==
    LET condition == self_evaluate(st, statement.condition)
        body == self_execute_statement(condition.st, statement.body, TRUE)
    IN  IF condition.err # Ok THEN Abort(condition.st, condition.err)
        ELSE IF ~is_truthy(condition.v) THEN Flow(condition.st, Normal)
        ELSE IF body.err # Ok THEN body
        ELSE IF body.cf = BreakLoop THEN Flow(body.st, Normal)
        ELSE IF body.cf.c = "Return" THEN body
        ELSE WhileLoop(body.st, statement)

\* the `loop` of Statement::For evaluating the increment twice after a `continue`
ForLoop_incrementing_twice(st, statement) ==
    LET condition == IF statement.condition = Absent THEN Value(st, Boolean(TRUE))
                     ELSE self_evaluate(st, statement.condition)
        body == self_execute_statement(condition.st, statement.body, TRUE)
        first == IF statement.increment = Absent \/ body.cf # ContinueLoop
                 THEN Value(body.st, Nil)
                 ELSE self_evaluate(body.st, statement.increment)
        increment == IF statement.increment = Absent THEN Value(first.st, Nil)
                     ELSE self_evaluate(first.st, statement.increment)
    IN  IF condition.err # Ok THEN Abort(condition.st, condition.err)
        ELSE IF ~is_truthy(condition.v) THEN Flow(condition.st, Normal)
        ELSE IF body.err # Ok THEN body
        ELSE IF body.cf = BreakLoop THEN Flow(body.st, Normal)
        ELSE IF body.cf.c = "Return" THEN body
        ELSE IF increment.err # Ok THEN Abort(increment.st, increment.err)
        ELSE ForLoop(increment.st, statement)

\* the `loop` of Statement::For handing a ContinueLoop on to what encloses the loop
ForLoop_passing_continue(st, statement) ==
    LET condition == IF statement.condition = Absent THEN Value(st, Boolean(TRUE))
                     ELSE self_evaluate(st, statement.condition)
        body == self_execute_statement(condition.st, statement.body, TRUE)
        increment == IF statement.increment = Absent THEN Value(body.st, Nil)
                     ELSE self_evaluate(body.st, statement.increment)
    IN  IF condition.err # Ok THEN Abort(condition.st, condition.err)
        ELSE IF ~is_truthy(condition.v) THEN Flow(condition.st, Normal)
        ELSE IF body.err # Ok THEN body
        ELSE IF body.cf = BreakLoop THEN Flow(body.st, Normal)
        ELSE IF body.cf.c = "Return" THEN body
        ELSE IF increment.err # Ok THEN Abort(increment.st, increment.err)
        ELSE IF body.cf = ContinueLoop THEN Flow(increment.st, ContinueLoop)
        ELSE ForLoop(increment.st, statement)

\* the `loop` of Statement::For
ForLoop(st, statement) ==
    LET condition == IF statement.condition = Absent THEN Value(st, Boolean(TRUE))
                     ELSE self_evaluate(st, statement.condition)
        body == self_execute_statement(condition.st, statement.body, TRUE)
        increment == IF statement.increment = Absent THEN Value(body.st, Nil)
                     ELSE self_evaluate(body.st, statement.increment)
    IN  IF condition.err # Ok THEN Abort(condition.st, condition.err)
        ELSE IF ~is_truthy(condition.v) THEN Flow(condition.st, Normal)
        ELSE IF body.err # Ok THEN body
        ELSE IF body.cf = BreakLoop THEN Flow(body.st, Normal)
        ELSE IF body.cf.c = "Return" THEN body
        ELSE IF increment.err # Ok THEN Abort(increment.st, increment.err)
        ELSE ForLoop(increment.st, statement)

\* the methods map of Statement::ClassDeclaration: a later method of a name replaces an earlier
MethodMap(methods, environment) ==
    [n \in {methods[i].name : i \in DOMAIN methods} |->
        LET m == methods[CHOOSE i \in DOMAIN methods :
                    methods[i].name = n /\ \A j \in DOMAIN methods : methods[j].name = n => j <= i]
        IN  Callable(LoxFunction(environment, m.name, m.name = "init", m.parameters, m.body))]

execute_statement(st, statement, inside_loop) ==
    CASE statement.k = "Expression" ->
            LET r == self_evaluate(st, statement.expression) IN
            IF r.err # Ok THEN Abort(r.st, r.err) ELSE Flow(r.st, Normal)
      [] statement.k = "Print" ->
            LET result == self_evaluate(st, statement.expression) IN
            IF result.err # Ok THEN Abort(result.st, result.err)
            ELSE Flow([result.st EXCEPT !.output = Append(@, result.v)], Normal)
      [] statement.k = "VariableDeclaration" ->
            LET initial == IF statement.initializer = Absent THEN Value(st, Nil)
                           ELSE self_evaluate(st, statement.initializer)
            IN  IF initial.err # Ok THEN Abort(initial.st, initial.err)
                ELSE Flow([initial.st EXCEPT !.frames =
                                define(@, Last(initial.st), statement.name, initial.v)],
                          Normal)
      [] statement.k = "Block" ->
            LET enclosure == new_enclosed(Last(st)) IN
            execute_block([st EXCEPT !.frames = Alloc(@, enclosure)],
                          statement.statements, Len(st.frames) + 1, inside_loop)
      [] statement.k = "If" ->
            LET result == self_evaluate(st, statement.condition) IN
            IF result.err # Ok THEN Abort(result.st, result.err)
            ELSE IF is_truthy(result.v)
            THEN self_execute_statement(result.st, statement.then_branch, inside_loop)
            ELSE IF statement.else_branch # Absent
            THEN self_execute_statement(result.st, statement.else_branch, inside_loop)
            ELSE Flow(result.st, Normal)
      [] statement.k = "While" -> WhileLoop(st, statement)
      [] statement.k = "For" ->
            LET initializer == IF statement.initializer = Absent THEN Flow(st, Normal)
                               ELSE self_execute_statement(st, statement.initializer, FALSE)
            IN  IF initializer.err # Ok THEN initializer
                ELSE ForLoop(initializer.st, statement)
      [] statement.k = "ClassDeclaration" ->
            LET super_class == IF statement.super_class = Absent THEN Value(st, Absent)
                               ELSE validate_superclass(st, statement.super_class)
                environment == Last(super_class.st)
                declared == define(super_class.st.frames, environment, statement.name, Nil)
                methods == MethodMap(statement.methods, environment)
                class == Class(statement.name, methods, super_class.v)
                init == find_method(class, "init")
                constructor == Constructor(class, IF init = None THEN 0 ELSE arity(init.c))
                assigned == assign_at(declared, environment, statement.name,
                                      Callable(constructor), 0)
            IN  IF super_class.err # Ok THEN Abort(super_class.st, super_class.err)
                ELSE Flow([super_class.st EXCEPT !.frames = assigned.frames], Normal)
      [] statement.k = "FunctionDeclaration" ->
            LET callable == LoxFunction(Last(st), statement.function.name, FALSE,
                                        statement.function.parameters, statement.function.body)
            IN  Flow([st EXCEPT !.frames = define(@, globals, statement.function.name,
                                                  Callable(callable))],
                     Normal)
      [] statement.k = "Return" ->
            LET value == IF statement.expression = Absent THEN Value(st, Nil)
                         ELSE self_evaluate(st, statement.expression)
            IN  IF value.err # Ok THEN Abort(value.st, value.err)
                ELSE Flow(value.st, Return(value.v))
      [] statement.k = "Break" ->
            IF inside_loop THEN Flow(st, BreakLoop) ELSE Abort(st, [e |-> "NotInLoop"])
      [] statement.k = "Continue" ->
            IF inside_loop THEN Flow(st, ContinueLoop) ELSE Abort(st, [e |-> "NotInLoop"])

\* the method of the Interpreter that a call names
Self(call) ==
    CASE call.f = "evaluate" -> evaluate(call.st, call.expression)
      [] call.f = "execute_statement" ->
            execute_statement(call.st, call.statement, call.inside_loop)
      [] call.f = "interpret_call" -> interpret_call(call.st, call.function, call.arguments)

(***************************************************************************)
(* Scanner (syntax/src/scanner.rs).  A byte is a one-character string, an  *)
(* Option<u8> a sequence of at most one byte, a lexeme the string of its   *)
(* bytes, and the reader a Cursor: the source bytes and how many of them   *)
(* have been read.                                                         *)
(***************************************************************************)
Scanner_new(reader) ==
    [reader |-> reader, line |-> 1, current_byte |-> <<>>, started |-> FALSE]

\* Scanner::advance: the scanner after the call, and the byte it returns
advance(self) ==
    IF self.reader.position < Len(self.reader.inner)
    THEN [self |-> [self EXCEPT
                        !.reader.position = @ + 1,
                        !.current_byte = <<self.reader.inner[self.reader.position + 1]>>],
          ret |-> self.current_byte]
    ELSE [self |-> [self EXCEPT !.current_byte = <<>>], ret |-> self.current_byte]

match_character(self, other) ==
    IF self.current_byte = <<other>> THEN [self |-> advance(self).self, ret |-> TRUE]
    ELSE [self |-> self, ret |-> FALSE]

RECURSIVE consume_whitespace(_)
\* the scanner after the call, and the Option<u8> it returns
consume_whitespace(self) ==
    LET RECURSIVE Comment(_)
        \* the `while let Some(current) = self.current_byte` loop over a comment
        Comment(s) ==
            IF s.current_byte = <<>> \/ s.current_byte = <<"\n">> THEN s
            ELSE Comment(advance(s).self)
        current == advance(self)
        second == match_character(current.self, "/")
    IN  IF current.ret = <<>> THEN current
        ELSE CASE current.ret[1] \in {"\n", "\r"} ->
                    consume_whitespace([current.self EXCEPT !.line = @ + 1])
               [] current.ret[1] \in {" ", "\t"} -> consume_whitespace(current.self)
               [] current.ret[1] = "/" ->
                    IF ~second.ret THEN current ELSE consume_whitespace(Comment(second.self))
               [] OTHER -> current

\* Scanner::add_token, as the Some(Ok(token)) that scan_token hands on
add_token(self, token_type, lexeme) ==
    [self |-> self,
     ret |-> <<[err |-> "Ok",
                token |-> [token_type |-> token_type, lexeme |-> lexeme, line |-> self.line]]>>]

\* lexeme holds the opening quote; `string` is lexeme[1..lexeme.len() - 1], collected as
\* the bytes between the quotes
consume_string(self, lexeme) ==
    LET RECURSIVE Loop(_, _, _)
        Loop(s, l, string) ==
            IF s.current_byte = <<>> THEN [self |-> s, lexeme |-> l, string |-> string,
                                           completed |-> FALSE]
            ELSE IF s.current_byte = <<"\n">>
            THEN Loop([advance(s).self EXCEPT !.line = @ + 1], l \o "\n", string \o "\n")
            ELSE IF s.current_byte = <<"\"">>
            THEN [self |-> s, lexeme |-> l \o "\"", string |-> string, completed |-> TRUE]
            ELSE Loop(advance(s).self, l \o s.current_byte[1], string \o s.current_byte[1])
        scanned == Loop(self, lexeme, "")
        after == advance(scanned.self).self
    IN  IF after.current_byte = <<>> /\ ~scanned.completed
        THEN [self |-> after, ret |-> <<[err |-> "UnterminatedStringLiteral"]>>]
        ELSE add_token(after, [t |-> "String", s |-> scanned.string], scanned.lexeme)

\* first is lexeme[0]; the digits after a decimal separator are kept in the lexeme only
consume_number(self, first) ==
    LET value == [c \in {"0", "1", "2", "3", "4", "5", "6", "7", "8", "9"} |->
                    CASE c = "0" -> 0 [] c = "1" -> 1 [] c = "2" -> 2 [] c = "3" -> 3
                      [] c = "4" -> 4 [] c = "5" -> 5 [] c = "6" -> 6 [] c = "7" -> 7
                      [] c = "8" -> 8 [] c = "9" -> 9]
        RECURSIVE Loop(_, _, _, _)
        Loop(s, l, decimal, current_part) ==
            IF s.current_byte = <<>> THEN [self |-> s, lexeme |-> l, decimal |-> decimal]
            ELSE IF s.current_byte = <<".">>
            THEN IF current_part = "Decimal" THEN [self |-> s, lexeme |-> l, decimal |-> decimal]
                 ELSE Loop(advance(s).self, l \o ".", decimal, "Decimal")
            ELSE IF s.current_byte[1] \notin DOMAIN value
            THEN [self |-> s, lexeme |-> l, decimal |-> decimal]
            ELSE Loop(advance(s).self, l \o s.current_byte[1],
                      IF current_part = "Integer" THEN decimal * 10 + value[s.current_byte[1]]
                      ELSE decimal,
                      current_part)
        scanned == Loop(self, first, value[first], "Integer")
    IN  add_token(scanned.self, [t |-> "Number", n |-> scanned.decimal], scanned.lexeme)

\* the letters are those of the keywords and of the sources scanned
consume_identifier(self, lexeme) ==
    LET is_ascii_alphanumeric ==
            {"a", "b", "c", "d", "e", "f", "h", "i", "k", "l", "n", "o", "p", "r", "s", "t",
             "u", "v", "w", "0", "1", "2", "3", "4", "5", "6", "7", "8", "9"}
        identifier_map ==
            {"and", "class", "else", "false", "for", "fun", "if", "nil", "or", "print",
             "return", "break", "continue", "super", "this", "true", "var", "while"}
        RECURSIVE Loop(_, _)
        Loop(s, l) ==
            IF s.current_byte = <<>> THEN [self |-> s, lexeme |-> l]
            ELSE IF s.current_byte[1] \notin is_ascii_alphanumeric /\ s.current_byte # <<"_">>
            THEN [self |-> s, lexeme |-> l]
            ELSE Loop(advance(s).self, l \o s.current_byte[1])
        scanned == Loop(self, lexeme)
    IN  add_token(scanned.self,
                  IF scanned.lexeme \in identifier_map
                  THEN [t |-> "Keyword", s |-> scanned.lexeme]
                  ELSE [t |-> "Identifier", s |-> scanned.lexeme],
                  scanned.lexeme)

\* the scanner after the call, and the Option<ScannerResult<Token>> it returns
scan_token(self) ==
    LET whitespace == consume_whitespace(self)
        s == whitespace.self
        current == whitespace.ret[1]
        single == [c \in {"(", ")", "{", "}", ",", ".", "-", "+", ";", "*", "/"} |->
                    CASE c = "(" -> "LeftParen" [] c = ")" -> "RightParen"
                      [] c = "{" -> "LeftBrace" [] c = "}" -> "RightBrace"
                      [] c = "," -> "Comma" [] c = "." -> "Dot" [] c = "-" -> "Minus"
                      [] c = "+" -> "Plus" [] c = ";" -> "Semicolon" [] c = "*" -> "Star"
                      [] c = "/" -> "Slash"]
        multiple == [c \in {"!", "=", "<", ">"} |->
                        CASE c = "!" -> <<"BangEqual", "Bang">>
                          [] c = "=" -> <<"EqualEqual", "Equal">>
                          [] c = "<" -> <<"LessEqual", "Less">>
                          [] c = ">" -> <<"GreaterEqual", "Greater">>]
        equal == match_character(s, "=")
    IN  IF whitespace.ret = <<>> THEN whitespace
        ELSE CASE current \in DOMAIN single -> add_token(s, [t |-> single[current]], current)
               [] current \in DOMAIN multiple ->
                    IF equal.ret
                    THEN add_token(equal.self, [t |-> multiple[current][1]], current \o "=")
                    ELSE add_token(equal.self, [t |-> multiple[current][2]], current)
               [] current = "\"" -> consume_string(s, current)
               [] current \in {"0", "1", "2", "3", "4", "5", "6", "7", "8", "9"} ->
                    consume_number(s, current)
               [] current \in {"a", "b", "c", "d", "e", "f", "h", "i", "k", "l", "n", "o", "p",
                               "r", "s", "t", "u", "v", "w", "_"} ->
                    consume_identifier(s, current)
               [] OTHER -> [self |-> s, ret |-> <<[err |-> "UnexpectedCharacter"]>>]

(***************************************************************************)
(* The Environment methods called on arbitrary frame chains                *)
(***************************************************************************)
NoCall == [op |-> "none"]

NoHost == [now |-> 0, stdin |-> "", draw |-> 0]

\* no program is run
Idle ==
    /\ program = [family |-> "none", statements |-> <<>>]
    /\ phase = "done"
    /\ pc = 1
    /\ resolver_error = ResolverOk
    /\ error = Ok
    /\ interpreter = Interpreter_new(NoHost)
    /\ scanner = Scanner_new([inner |-> <<>>, position |-> 0])
    /\ tokens = <<>>
    /\ scan_result = "Ok"

EnvInit ==
    /\ frames = <<new>>
    /\ env_call = NoCall
    /\ Idle

EnvNewEnclosed ==
    \E parent \in DOMAIN frames :
        /\ Len(frames) < MaxFrames
        /\ frames' = Alloc(frames, new_enclosed(parent))
        /\ env_call' = [op |-> "new_enclosed", self |-> parent]
        /\ UNCHANGED <<run_vars, scanner, tokens, scan_result>>

EnvDefine ==
    \E self \in DOMAIN frames, name \in EnvNames, value \in EnvValues :
        /\ frames' = define(frames, self, name, value)
        /\ env_call' = [op |-> "define", self |-> self, name |-> name]
        /\ UNCHANGED <<run_vars, scanner, tokens, scan_result>>

EnvAssignAt ==
    \E self \in DOMAIN frames, name \in EnvNames, value \in EnvValues, distance \in 0 .. MaxFrames :
        LET r == assign_at(frames, self, name, value, distance) IN
        /\ frames' = r.frames
        /\ env_call' = [op |-> "assign_at", self |-> self, name |-> name, value |-> value,
                        distance |-> distance, ret |-> r.ret]
        /\ UNCHANGED <<run_vars, scanner, tokens, scan_result>>

EnvGetAt ==
    \E self \in DOMAIN frames, name \in EnvNames, distance \in 0 .. MaxFrames :
        /\ frames' = frames
        /\ env_call' = [op |-> "get_at", self |-> self, name |-> name,
                        distance |-> distance, ret |-> get_at(frames, self, name, distance)]
        /\ UNCHANGED <<run_vars, scanner, tokens, scan_result>>

EnvNext == EnvNewEnclosed \/ EnvDefine \/ EnvAssignAt \/ EnvGetAt

SpecEnv == EnvInit /\ [][EnvNext]_vars

(***************************************************************************)
(* Scanner::scan_tokens over every source text of at most MaxSource bytes  *)
(***************************************************************************)
MaxSource == 4

ScanInit ==
    /\ frames = <<new>>
    /\ env_call = NoCall
    /\ program = [family |-> "none", statements |-> <<>>]
    /\ phase = "done"
    /\ pc = 1
    /\ resolver_error = ResolverOk
    /\ error = Ok
    /\ interpreter = Interpreter_new(NoHost)
    /\ \E source \in UNION {[1 .. n -> {"\n", "\r", " ", "/", "\"", ";", "a", "1"}] :
                                n \in 0 .. MaxSource} :
            scanner = Scanner_new([inner |-> source, position |-> 0])
    /\ tokens = <<>>
    /\ scan_result = "scanning"

\* one iteration of `for token in self.into_iter()` of scan_tokens: Iterator::next and
\* `tokens.push(token?)`.  A token is kept with `end`, the number of source bytes the
\* scanner had consumed when it made the token.
ScanNext ==
    /\ scan_result = "scanning"
    /\ LET first == advance(scanner).self
           next == IF scanner.started THEN scan_token(scanner)
                   ELSE IF scanner.reader.inner = <<>> THEN [self |-> scanner, ret |-> <<>>]
                   ELSE scan_token([first EXCEPT !.started = TRUE])
       IN  /\ scanner' = next.self
           /\ tokens' = IF next.ret # <<>> /\ next.ret[1].err = "Ok"
                        THEN Append(tokens,
                                    [token |-> next.ret[1].token,
                                     end |-> next.self.reader.position
                                                - Len(next.self.current_byte)])
                        ELSE tokens
           /\ scan_result' = IF next.ret = <<>> THEN "Ok"
                             ELSE IF next.ret[1].err = "Ok" THEN "scanning"
                             ELSE next.ret[1].err
    /\ UNCHANGED <<frames, env_call, run_vars>>

SpecScanner == ScanInit /\ [][ScanNext]_vars

(***************************************************************************)
(* The programs run: each family is a program text with a few parameters   *)
(***************************************************************************)
MaxNest == 2

ProgramValues == {1, 2}

RECURSIVE Nest(_, _)
\* statement wrapped in n blocks: { { statement } }
Nest(statement, n) == IF n = 0 THEN statement ELSE SBlock(<<Nest(statement, n - 1)>>)

\*  1  var a = outer;
\*  2  {
\*  3    var a = inner;
\*  4    {{ print a; }}            (nest blocks)
\*  5  }
\*  6  print a;
\* the whole inside one more block when `enclosed`
ShadowProgram(enclosed, nest, outer, inner) ==
    LET body == <<SVariableDeclaration("a", ENumber(outer)),
                  SBlock(<<SVariableDeclaration("a", ENumber(inner)),
                           Nest(SPrint(EVar("a", 4)), nest)>>),
                  SPrint(EVar("a", 6))>>
    IN  [family |-> "shadow", enclosed |-> enclosed, nest |-> nest,
         outer |-> outer, inner |-> inner,
         statements |-> IF enclosed THEN <<SBlock(body)>> ELSE body]

ShadowPrograms ==
    {ShadowProgram(enclosed, nest, outer, inner) :
        enclosed \in BOOLEAN, nest \in 0 .. MaxNest,
        outer \in ProgramValues, inner \in ProgramValues}

MaxCalls == 2

MaxParams == 2

\* the argument list 1, 2, .. m
NumberArgs(m) == [i \in 1 .. m |-> ENumber(i)]

\* the parameter list p1, p2, .. n
ParamNames(n) == [i \in 1 .. n |-> IF i = 1 THEN "p1" ELSE IF i = 2 THEN "p2" ELSE "p3"]

\*  1  fun makeCounter() {
\*  2    var c = start;
\*  3    fun inc() {
\*  4      c = c + 1;
\*  5      return c;
\*  6    }
\*  7    return inc;
\*  8  }
\*  9  var f = makeCounter();
\* 10  var g = makeCounter();
\* 11  print f();                 (ncalls times)
\* 12  print g();
CounterProgram(start, ncalls) ==
    LET inc == Function("inc", <<>>,
                    <<SExpression(EAssignment("c", EBinary(EVar("c", 4), "Plus", ENumber(1)), 4)),
                      SReturn(EVar("c", 5))>>)
        makeCounter == Function("makeCounter", <<>>,
                    <<SVariableDeclaration("c", ENumber(start)),
                      SFunctionDeclaration(inc),
                      SReturn(EVar("inc", 7))>>)
    IN  [family |-> "counter", start |-> start, ncalls |-> ncalls,
         statements |->
            <<SFunctionDeclaration(makeCounter),
              SVariableDeclaration("f", ECall(EVar("makeCounter", 9), <<>>, 9)),
              SVariableDeclaration("g", ECall(EVar("makeCounter", 10), <<>>, 10))>>
            \o [i \in 1 .. ncalls |-> SPrint(ECall(EVar("f", 11), <<>>, 11))]
            \o <<SPrint(ECall(EVar("g", 12), <<>>, 12))>>]

CounterPrograms ==
    {CounterProgram(start, ncalls) : start \in ProgramValues, ncalls \in 1 .. MaxCalls}

\* callee "function":     fun f(p1, .. pn) { print 7; }            f(1, .. m);
\* callee "constructor":  class C { init(p1, .. pn) { print 7; } } C(1, .. m);
\* callee "class":        class C { }                               C(1, .. m);
\* callee "random":       random(1, .. m);       callee "clock":    clock(1, .. m);
ArityProgram(callee, n, m) ==
    LET body == <<SPrint(ENumber(7))>> IN
    [family |-> "arity", callee |-> callee, m |-> m,
     n |-> IF callee = "random" THEN 2
           ELSE IF callee \in {"clock", "class"} THEN 0
           ELSE n,
     statements |->
        CASE callee = "function" ->
                <<SFunctionDeclaration(Function("f", ParamNames(n), body)),
                  SExpression(ECall(EVar("f", 2), NumberArgs(m), 2))>>
          [] callee = "constructor" ->
                <<SClassDeclaration("C", <<Function("init", ParamNames(n), body)>>, Absent),
                  SExpression(ECall(EVar("C", 2), NumberArgs(m), 2))>>
          [] callee = "class" ->
                <<SClassDeclaration("C", <<>>, Absent),
                  SExpression(ECall(EVar("C", 2), NumberArgs(m), 2))>>
          [] OTHER ->
                <<SExpression(ECall(EVar(callee, 1), NumberArgs(m), 1))>>]

ArityPrograms ==
    {ArityProgram(callee, n, m) :
        callee \in {"function", "constructor", "class", "random", "clock"},
        n \in 0 .. MaxParams, m \in 0 .. MaxParams + 1}

\* use "init":    class C { init(x) { this.x = x; } }  var c = C(v);  print c.x;
\* use "method":  class C { me() { return this; } }    var c = C();   var t = c.me();
ThisProgram(use, v) ==
    [family |-> "this", use |-> use, v |-> v,
     statements |->
        IF use = "init"
        THEN <<SClassDeclaration("C",
                    <<Function("init", <<"x">>,
                        <<SExpression(ESet(EThis(1), "x", EVar("x", 1)))>>)>>, Absent),
               SVariableDeclaration("c", ECall(EVar("C", 2), <<ENumber(v)>>, 2)),
               SPrint(EGet(EVar("c", 3), "x"))>>
        ELSE <<SClassDeclaration("C",
                    <<Function("me", <<>>, <<SReturn(EThis(1))>>)>>, Absent),
               SVariableDeclaration("c", ECall(EVar("C", 2), <<>>, 2)),
               SVariableDeclaration("t", ECall(EGet(EVar("c", 3), "me"), <<>>, 3))>>]

ThisPrograms == {ThisProgram(use, v) : use \in {"init", "method"}, v \in ProgramValues}

\* the bodies a function is given: how each ends, and the value it returns
Bodies(v) ==
    {[statements |-> <<>>, returns |-> Nil],
     [statements |-> <<SReturn(Absent)>>, returns |-> Nil],
     [statements |-> <<SReturn(ENumber(v))>>, returns |-> Number(v)],
     [statements |-> <<SPrint(ENumber(v)), SReturn(ENumber(99))>>, returns |-> Number(99)],
     [statements |-> <<SBlock(<<SReturn(ENumber(v))>>), SPrint(ENumber(v))>>,
      returns |-> Number(v)],
     [statements |-> <<SPrint(ENumber(v))>>, returns |-> Nil]}

\* class Base { init(x) { body } }
\* class C < Base { }                    (when inherited; else init is C's own)
\* var c = C(v);
ConstructProgram(inherited, body, v) ==
    [family |-> "construct", inherited |-> inherited, body |-> body, v |-> v,
     statements |->
        IF inherited
        THEN <<SClassDeclaration("Base",
                    <<Function("init", <<"x">>, body.statements)>>, Absent),
               SClassDeclaration("C", <<>>, EVar("Base", 2)),
               SVariableDeclaration("c", ECall(EVar("C", 3), <<ENumber(v)>>, 3))>>
        ELSE <<SClassDeclaration("C",
                    <<Function("init", <<"x">>, body.statements)>>, Absent),
               SVariableDeclaration("c", ECall(EVar("C", 3), <<ENumber(v)>>, 3))>>]

\* the spec's initializer: init(x) { this.x = x; return 99; }
FieldBody ==
    [statements |-> <<SExpression(ESet(EThis(1), "x", EVar("x", 1))), SReturn(ENumber(99))>>,
     returns |-> Number(99)]

ConstructPrograms ==
    {ConstructProgram(inherited, body, v) :
        inherited \in BOOLEAN, body \in Bodies(7) \cup {FieldBody}, v \in ProgramValues}

\* class C { init() { body } }   var c = C();   var r = c.init();
BoundInitProgram(body) ==
    [family |-> "bound_init", body |-> body,
     statements |->
        <<SClassDeclaration("C", <<Function("init", <<>>, body.statements)>>, Absent),
          SVariableDeclaration("c", ECall(EVar("C", 2), <<>>, 2)),
          SVariableDeclaration("r", ECall(EGet(EVar("c", 3), "init"), <<>>, 3))>>]

BoundInitPrograms == {BoundInitProgram(body) : body \in Bodies(7)}

\* callee "function":  fun f() { body }            var r = f();
\* callee "method":    class C { m() { body } }    var c = C();   var r = c.m();
ReturnProgram(callee, body) ==
    [family |-> "return", callee |-> callee, body |-> body,
     statements |->
        IF callee = "function"
        THEN <<SFunctionDeclaration(Function("f", <<>>, body.statements)),
               SVariableDeclaration("r", ECall(EVar("f", 2), <<>>, 2))>>
        ELSE <<SClassDeclaration("C", <<Function("m", <<>>, body.statements)>>, Absent),
               SVariableDeclaration("c", ECall(EVar("C", 2), <<>>, 2)),
               SVariableDeclaration("r", ECall(EGet(EVar("c", 3), "m"), <<>>, 3))>>]

ReturnPrograms ==
    {ReturnProgram(callee, body) :
        callee \in {"function", "method"}, body \in UNION {Bodies(v) : v \in ProgramValues}}

\* class C { method() { } }                 (in Base, with class C < Base { }, when inherited)
\* var a = C();  var b = C();
\* var x = a.method;  var y = a.method;  var z = b.method;
BindPrograms ==
    {[family |-> "bind", method |-> method, inherited |-> inherited,
      statements |->
        (IF inherited
         THEN <<SClassDeclaration("Base", <<Function(method, <<>>, <<>>)>>, Absent),
                SClassDeclaration("C", <<>>, EVar("Base", 1))>>
         ELSE <<SClassDeclaration("C", <<Function(method, <<>>, <<>>)>>, Absent)>>)
        \o <<SVariableDeclaration("a", ECall(EVar("C", 2), <<>>, 2)),
              SVariableDeclaration("b", ECall(EVar("C", 3), <<>>, 3)),
              SVariableDeclaration("x", EGet(EVar("a", 4), method)),
              SVariableDeclaration("y", EGet(EVar("a", 5), method)),
              SVariableDeclaration("z", EGet(EVar("b", 6), method))>>] :
        method \in {"m", "init"}, inherited \in BOOLEAN}

\* class G { greet() { print 3; } }          (each greet only when the class is a definer)
\* class B < G { greet() { print 2; } }
\* class A < B { greet() { print 1; } }
\* var a = A();
\* a.greet();
LookupPrograms ==
    {[family |-> "lookup", definers |-> definers,
      statements |->
        LET greet(class, n) ==
                IF class \in definers THEN <<Function("greet", <<>>, <<SPrint(ENumber(n))>>)>>
                ELSE <<>>
        IN  <<SClassDeclaration("G", greet("G", 3), Absent),
              SClassDeclaration("B", greet("B", 2), EVar("G", 2)),
              SClassDeclaration("A", greet("A", 1), EVar("B", 3)),
              SVariableDeclaration("a", ECall(EVar("A", 4), <<>>, 4)),
              SExpression(ECall(EGet(EVar("a", 5), "greet"), <<>>, 5))>>] :
        definers \in SUBSET {"A", "B", "G"}}

\* class C { m() { print 1; } }             (in Base, with class C < Base { }, when inherited)
\* var a = C();  var b = C();
\* a.name = v;
\* print a.name;
\* b.m();
SetPrograms ==
    {[family |-> "set", name |-> name, v |-> v, inherited |-> inherited,
      statements |->
        LET m == Function("m", <<>>, <<SPrint(ENumber(1))>>) IN
        (IF inherited
         THEN <<SClassDeclaration("Base", <<m>>, Absent),
                SClassDeclaration("C", <<>>, EVar("Base", 1))>>
         ELSE <<SClassDeclaration("C", <<m>>, Absent)>>)
        \o <<SVariableDeclaration("a", ECall(EVar("C", 2), <<>>, 2)),
              SVariableDeclaration("b", ECall(EVar("C", 2), <<>>, 2)),
              SExpression(ESet(EVar("a", 3), name, ENumber(v))),
              SPrint(EGet(EVar("a", 4), name)),
              SExpression(ECall(EGet(EVar("b", 5), "m"), <<>>, 5))>>] :
        name \in {"m", "f"}, v \in ProgramValues, inherited \in BOOLEAN}

\* print !operand;       (after class C { } when the operand is C())
BangPrograms ==
    {[family |-> "bang", operand |-> o.operand, truthy |-> o.truthy,
      statements |->
        (IF o.operand = "instance" THEN <<SClassDeclaration("C", <<>>, Absent)>> ELSE <<>>)
        \o <<SPrint(EUnary("Bang", o.expression))>>] :
        o \in {[operand |-> "nil", expression |-> ENil, truthy |-> FALSE],
                [operand |-> "true", expression |-> ETrue, truthy |-> TRUE],
                [operand |-> "false", expression |-> EFalse, truthy |-> FALSE],
                [operand |-> "0", expression |-> ENumber(0), truthy |-> FALSE],
                [operand |-> "1", expression |-> ENumber(1), truthy |-> TRUE],
                [operand |-> "-1", expression |-> EUnary("Minus", ENumber(1)), truthy |-> TRUE],
                [operand |-> "string", expression |-> EString("s"), truthy |-> TRUE],
                [operand |-> "empty string", expression |-> EString(""), truthy |-> TRUE],
                [operand |-> "callable", expression |-> EVar("clock", 1), truthy |-> TRUE],
                [operand |-> "instance", expression |-> ECall(EVar("C", 1), <<>>, 1),
                 truthy |-> TRUE]}}

MaxIterations == 2

\* class C { }   var c = C();
\* fun test() { print "test"; return c.i < limit; }
\* fun increment() { print "increment"; c.i = c.i + 1; }
\* for (c.i = 0; test(); increment()) {
\*   if (c.i == s or ..) continue;         (for the s in skips; in a block of its own when nested)
\*   print c.i;
\* }
ForPrograms ==
    {[family |-> "for", limit |-> limit, skips |-> skips, nested |-> nested,
      statements |->
        LET i == EGet(EVar("c", 1), "i")
            skip[k \in -1 .. limit - 1] ==
                IF k = -1 THEN EFalse
                ELSE IF k \in skips THEN EOr(skip[k - 1], EBinary(i, "EqualEqual", ENumber(k)))
                ELSE skip[k - 1]
        IN  <<SClassDeclaration("C", <<>>, Absent),
              SVariableDeclaration("c", ECall(EVar("C", 1), <<>>, 1)),
              SFunctionDeclaration(Function("test", <<>>,
                    <<SPrint(EString("test")), SReturn(EBinary(i, "Less", ENumber(limit)))>>)),
              SFunctionDeclaration(Function("increment", <<>>,
                    <<SPrint(EString("increment")),
                      SExpression(ESet(EVar("c", 3), "i", EBinary(i, "Plus", ENumber(1))))>>)),
              SFor(SExpression(ESet(EVar("c", 4), "i", ENumber(0))),
                   ECall(EVar("test", 4), <<>>, 4),
                   ECall(EVar("increment", 4), <<>>, 4),
                   SBlock(<<SIf(skip[limit - 1],
                                IF nested THEN SBlock(<<SContinue>>) ELSE SContinue, Absent),
                            SPrint(i)>>))>>] :
        limit \in 0 .. MaxIterations, skips \in SUBSET (0 .. MaxIterations - 1),
        nested \in BOOLEAN}

\* class C { }   var c = C();
\* fun test() { print "test"; return true; }
\* c.i = 0;
\* while (c.i < rounds) {                    (or for (c.i = 0; c.i < rounds; c.i = c.i + 1) {)
\*   c.j = 0;
\*   while (test()) {                        (or for (; test(); ) {)
\*     c.j = c.j + 1;
\*     {{ if (c.j == at) {{ break; }} }}     (nest blocks around the if and around the break)
\*     print c.j;
\*   }
\*   print 10 + c.i;
\*   c.i = c.i + 1;
\* }
BreakPrograms ==
    {[family |-> "break", rounds |-> rounds, at |-> at, nest |-> nest,
      outer |-> outer, inner |-> inner,
      statements |->
        LET c == EVar("c", 1)
            Field(name) == EGet(c, name)
            Step(name) == SExpression(ESet(c, name, EBinary(Field(name), "Plus", ENumber(1))))
            Zero(name) == SExpression(ESet(c, name, ENumber(0)))
            Loop(kind, condition, body) ==
                IF kind = "while" THEN SWhile(condition, body)
                ELSE SFor(Absent, condition, Absent, body)
            inner_loop ==
                Loop(inner, ECall(EVar("test", 2), <<>>, 2),
                     SBlock(<<Step("j"),
                              Nest(SIf(EBinary(Field("j"), "EqualEqual", ENumber(at)),
                                       Nest(SBreak, nest), Absent), nest),
                              SPrint(Field("j"))>>))
        IN  <<SClassDeclaration("C", <<>>, Absent),
              SVariableDeclaration("c", ECall(EVar("C", 1), <<>>, 1)),
              SFunctionDeclaration(Function("test", <<>>,
                    <<SPrint(EString("test")), SReturn(ETrue)>>)),
              Zero("i"),
              Loop(outer, EBinary(Field("i"), "Less", ENumber(rounds)),
                   SBlock(<<Zero("j"),
                            inner_loop,
                            SPrint(EBinary(ENumber(10), "Plus", Field("i"))),
                            Step("i")>>))>>] :
        rounds \in 0 .. MaxIterations, at \in 1 .. MaxIterations, nest \in 0 .. MaxNest,
        outer \in {"while", "for"}, inner \in {"while", "for"}}

\* jump is `break;` or `continue;`, guarded is { if (true) { jump } }, and once(body) is
\*     c.i = 0;  while (c.i < 1) { c.i = c.i + 1; body }       (for (; c.i < 1; ) when "for")
\* after  class C { }  var c = C();  the program is, by place,
\*   "top":               jump                  "block":          guarded
\*   "else":              if (false) { } else jump
\*   "while", "for":      once(guarded)
\*   "function":          fun f() { guarded }  f();
\*   "function in loop":  fun f() { guarded }  once(f();)
\*   "loop in function":  fun f() { once(guarded) }  f();
\* and then  print 1;
JumpPrograms ==
    {[family |-> "jump", jump |-> jump, place |-> place,
      statements |->
        LET c == EVar("c", 1)
            guarded == SBlock(<<SIf(ETrue, SBlock(<<jump>>), Absent)>>)
            once(kind, body) ==
                LET condition == EBinary(EGet(c, "i"), "Less", ENumber(1))
                    block == SBlock(<<SExpression(ESet(c, "i", EBinary(EGet(c, "i"), "Plus",
                                                                      ENumber(1)))),
                                      body>>)
                IN  <<SExpression(ESet(c, "i", ENumber(0))),
                      IF kind = "for" THEN SFor(Absent, condition, Absent, block)
                      ELSE SWhile(condition, block)>>
            call == SExpression(ECall(EVar("f", 2), <<>>, 2))
        IN  <<SClassDeclaration("C", <<>>, Absent),
              SVariableDeclaration("c", ECall(EVar("C", 1), <<>>, 1))>>
            \o (CASE place = "top" -> <<jump>>
                  [] place = "block" -> <<guarded>>
                  [] place = "else" -> <<SIf(EFalse, SBlock(<<>>), jump)>>
                  [] place \in {"while", "for"} -> once(place, guarded)
                  [] place = "function" ->
                        <<SFunctionDeclaration(Function("f", <<>>, <<guarded>>)), call>>
                  [] place = "function in loop" ->
                        <<SFunctionDeclaration(Function("f", <<>>, <<guarded>>))>>
                            \o once("while", call)
                  [] place = "loop in function" ->
                        <<SFunctionDeclaration(Function("f", <<>>, once("while", guarded))),
                          call>>)
            \o <<SPrint(ENumber(1))>>] :
        jump \in {SBreak, SContinue},
        place \in {"top", "block", "else", "while", "for", "function", "function in loop",
                   "loop in function"}}

\* fun f() { print 4; print u; print 7; }
\* var a = v;
\* print a;
\* failing                                    (a statement that raises a runtime error)
\* var b = 2;
\* print 3;
StopPrograms ==
    {[family |-> "stop", v |-> v, failing |-> failing.name, raises |-> failing.raises,
      prints |-> failing.prints,
      statements |->
        <<SFunctionDeclaration(Function("f", <<>>,
                <<SPrint(ENumber(4)), SPrint(EVar("u", 1)), SPrint(ENumber(7))>>)),
          SVariableDeclaration("a", ENumber(v)),
          SPrint(EVar("a", 3)),
          failing.statement,
          SVariableDeclaration("b", ENumber(2)),
          SPrint(ENumber(3))>>] :
        v \in ProgramValues,
        failing \in
            {[name |-> "print u;", statement |-> SPrint(EVar("u", 4)),
              raises |-> UndefinedVariable("u"), prints |-> <<>>],
             [name |-> "print 1 / 0;",
              statement |-> SPrint(EBinary(ENumber(1), "Slash", ENumber(0))),
              raises |-> [e |-> "DivisionByZero"], prints |-> <<>>],
             [name |-> "a();", statement |-> SExpression(ECall(EVar("a", 4), <<>>, 4)),
              raises |-> [e |-> "NotACallable"], prints |-> <<>>],
             [name |-> "break;", statement |-> SBreak,
              raises |-> [e |-> "NotInLoop"], prints |-> <<>>],
             [name |-> "{ print 5; f(); print 6; }",
              statement |-> SBlock(<<SPrint(ENumber(5)),
                                     SExpression(ECall(EVar("f", 4), <<>>, 4)),
                                     SPrint(ENumber(6))>>),
              raises |-> UndefinedVariable("u"), prints |-> <<Number(5), Number(4)>>]}}

\* where `return 1;` stands, and whether that is inside a function or method body
ReturnScopePrograms ==
    {[family |-> "return scope", place |-> p.place, inside |-> p.inside,
      statements |-> p.statements] :
        p \in
            LET return == SReturn(ENumber(1))
                g == SFunctionDeclaration(Function("g", <<>>, <<>>))
                C == SClassDeclaration("C", <<Function("m", <<>>, <<>>)>>, Absent)
                f(body) == SFunctionDeclaration(Function("f", <<>>, body))
            IN  {[place |-> "return 1;", inside |-> FALSE, statements |-> <<return>>],
                 [place |-> "{ return 1; }", inside |-> FALSE,
                  statements |-> <<SBlock(<<return>>)>>],
                 [place |-> "fun g() { } return 1;", inside |-> FALSE,
                  statements |-> <<g, return>>],
                 [place |-> "fun f() { return 1; }", inside |-> TRUE,
                  statements |-> <<f(<<return>>)>>],
                 [place |-> "fun f() { { return 1; } }", inside |-> TRUE,
                  statements |-> <<f(<<SBlock(<<return>>)>>)>>],
                 [place |-> "class C { m() { return 1; } }", inside |-> TRUE,
                  statements |->
                    <<SClassDeclaration("C", <<Function("m", <<>>, <<return>>)>>, Absent)>>],
                 [place |-> "class C { a() { } m() { return 1; } }", inside |-> TRUE,
                  statements |->
                    <<SClassDeclaration("C", <<Function("a", <<>>, <<>>),
                                               Function("m", <<>>, <<return>>)>>, Absent)>>],
                 [place |-> "fun f() { fun g() { return 1; } }", inside |-> TRUE,
                  statements |->
                    <<f(<<SFunctionDeclaration(Function("g", <<>>, <<return>>))>>)>>],
                 [place |-> "fun f() { fun g() { } return 1; }", inside |-> TRUE,
                  statements |-> <<f(<<g, return>>)>>],
                 [place |-> "fun f() { class C { m() { } } return 1; }", inside |-> TRUE,
                  statements |-> <<f(<<C, return>>)>>]}}

\* {{ { first a;  second a; } }}            where "same"      (nest blocks around)
\* {{ { first a;  { second a; } } }}        where "nested"
\* {{ { first a;  second b; } }}            where "other name"
\* first and second are  var x;  fun x() { }  class x { } ;  with first "parameter" the
\* inner block is  fun f(a) { .. }  and a is its parameter
RedeclarePrograms ==
    {[family |-> "redeclare", first |-> first, second |-> second, where |-> where,
      nest |-> nest,
      statements |->
        LET Declaration(kind, name) ==
                CASE kind = "var" -> SVariableDeclaration(name, Absent)
                  [] kind = "fun" -> SFunctionDeclaration(Function(name, <<>>, <<>>))
                  [] kind = "class" -> SClassDeclaration(name, <<>>, Absent)
            again == CASE where = "same" -> Declaration(second, "a")
                       [] where = "nested" -> SBlock(<<Declaration(second, "a")>>)
                       [] where = "other name" -> Declaration(second, "b")
        IN  <<Nest(IF first = "parameter"
                   THEN SFunctionDeclaration(Function("f", <<"a">>, <<again>>))
                   ELSE SBlock(<<Declaration(first, "a"), again>>), nest)>>] :
        first \in {"var", "fun", "class", "parameter"}, second \in {"var", "fun", "class"},
        where \in {"same", "nested", "other name"}, nest \in 0 .. MaxNest}

\* print native(arguments);     for every native function of the global frame and every
\* argument list of its registered arity over two numbers and two strings
NativePrograms ==
    {[family |-> "native", func |-> call.func, args |-> call.args,
      statements |-> <<SPrint(ECall(EVar(call.func, 1), call.args, 1))>>] :
        call \in {c \in [func : {"clock", "read_line", "random", "string_to_number"},
                         args : UNION {[1 .. n -> {ENumber(1), ENumber(2), EString("1"),
                                                   EString("x")}] : n \in 0 .. 2}] :
                    Len(c.args) = arity(Interpreter_new(NoHost).frames[globals].values[c.func].c)}}

\* { var x = 1;
\*   {{ { var y = 2;  target = rhs;  print y; } }}      (gap blocks around)
\*   print x; }
\* target is x, or u that is declared nowhere; rhs is the variable y or the literal 7
AssignPrograms ==
    {[family |-> "assign", target |-> target, rhs |-> rhs, gap |-> gap,
      statements |->
        <<SBlock(<<SVariableDeclaration("x", ENumber(1)),
                   Nest(SBlock(<<SVariableDeclaration("y", ENumber(2)),
                                 SExpression(EAssignment(target,
                                                         IF rhs = "y" THEN EVar("y", 3)
                                                         ELSE ENumber(7), 3)),
                                 SPrint(EVar("y", 4))>>), gap),
                   SPrint(EVar("x", 5))>>)>>] :
        target \in {"x", "u"}, rhs \in {"y", "literal"}, gap \in 0 .. MaxNest}

\* var a = 1;
\* {{ { print a;                                       (outer blocks around)
\*      { var a = 2;  {{ second }} } } }}               (inner blocks around second)
\* second is  print a;  or  a = 3;  on the line of the first `print a;` or on the next
DepthPrograms ==
    {[family |-> "depth", outer |-> outer, inner |-> inner, use |-> use,
      same_line |-> same_line, first |-> EVar("a", 2),
      second |-> IF use = "read" THEN EVar("a", IF same_line THEN 2 ELSE 3)
                 ELSE EAssignment("a", ENumber(3), IF same_line THEN 2 ELSE 3),
      statements |->
        LET line == IF same_line THEN 2 ELSE 3
            second == IF use = "read" THEN SPrint(EVar("a", line))
                      ELSE SExpression(EAssignment("a", ENumber(3), line))
        IN  <<SVariableDeclaration("a", ENumber(1)),
              Nest(SBlock(<<SPrint(EVar("a", 2)),
                            SBlock(<<SVariableDeclaration("a", ENumber(2)),
                                     Nest(second, inner)>>)>>), outer)>>] :
        outer \in 0 .. MaxNest, inner \in 0 .. MaxNest, use \in {"read", "assign"},
        same_line \in BOOLEAN}

\* nest 0:   declaration  use                    (at top level)
\* nest 1:   [var d = 1;]  { declaration  use }  [print d;]
\* nest 2: { [var d = 1;]  { declaration  use }  [print d;] }
\* declaration and use are  fun d() { print 5; }  d();   or   class d { }  print d;
\* the bracketed statements are there when `outer`, which nest 0 never is
DeclarePrograms ==
    {[family |-> "declare", kind |-> kind, nest |-> nest, outer |-> outer /\ nest > 0,
      statements |->
        LET declaration ==
                IF kind = "fun"
                THEN SFunctionDeclaration(Function("d", <<>>, <<SPrint(ENumber(5))>>))
                ELSE SClassDeclaration("d", <<>>, Absent)
            use == IF kind = "fun" THEN SExpression(ECall(EVar("d", 3), <<>>, 3))
                   ELSE SPrint(EVar("d", 3))
            around == (IF outer THEN <<SVariableDeclaration("d", ENumber(1))>> ELSE <<>>)
                        \o <<SBlock(<<declaration, use>>)>>
                        \o (IF outer THEN <<SPrint(EVar("d", 5))>> ELSE <<>>)
        IN  CASE nest = 0 -> <<declaration, use>>
              [] nest = 1 -> around
              [] OTHER -> <<Nest(SBlock(around), nest - 2)>>] :
        kind \in {"fun", "class"}, nest \in 0 .. MaxNest, outer \in BOOLEAN}

Programs ==
    ShadowPrograms \cup CounterPrograms \cup ArityPrograms \cup ThisPrograms
        \cup ConstructPrograms \cup BoundInitPrograms \cup ReturnPrograms
        \cup BindPrograms
        \cup LookupPrograms
        \cup SetPrograms
        \cup BangPrograms
        \cup ForPrograms
        \cup BreakPrograms
        \cup JumpPrograms
        \cup StopPrograms
        \cup ReturnScopePrograms
        \cup RedeclarePrograms
        \cup NativePrograms

\* a host where every system call succeeds, and one where the clock and standard input fail
        \cup AssignPrograms
        \cup DepthPrograms
        \cup DeclarePrograms

Hosts == {[now |-> 0, stdin |-> "", draw |-> 0], [now |-> -1, stdin |-> "<io error>", draw |-> 1]}

(***************************************************************************)
(* A run: the resolver over the whole program, then Interpreter::interpret *)
(* one top-level statement at a time; or, as main.rs's run does it,        *)
(* Interpreter::interpret alone, with nothing resolved                     *)
(***************************************************************************)
Init ==
    /\ frames = <<new>>
    /\ env_call = NoCall
    /\ program \in Programs
    /\ phase \in {"resolve", "interpret"}
    /\ pc = 1
    /\ resolver_error = ResolverOk
    /\ error = Ok
    /\ \E host \in Hosts : interpreter = Interpreter_new(host)
    /\ scanner = Scanner_new([inner |-> <<>>, position |-> 0])
    /\ tokens = <<>>
    /\ scan_result = "Ok"

\* Resolver::new(&interpreter).resolve_statements(&statements); an error ends the run
\* before any statement executes
Resolve ==
    /\ phase = "resolve"
    /\ LET rs == resolve_statements([Resolver_new EXCEPT !.locals = interpreter.locals],
                                    program.statements)
       IN  /\ interpreter' = [interpreter EXCEPT !.locals = rs.locals]
           /\ resolver_error' = rs.err
           /\ phase' = IF rs.err = ResolverOk THEN "interpret" ELSE "done"
    /\ UNCHANGED <<frames, env_call, program, pc, error, scanner, tokens, scan_result>>

\* the loop of Interpreter::interpret going on to the next statement after an error
Interpret_past_errors ==
    /\ phase = "interpret"
    /\ pc <= Len(program.statements)
    /\ LET r == self_execute_statement(interpreter, program.statements[pc], FALSE) IN
           /\ interpreter' = NoteFlow(r.st, "interpret", r)
           /\ error' = r.err
           /\ phase' = "interpret"
           /\ pc' = pc + 1
    /\ UNCHANGED <<frames, env_call, program, resolver_error, scanner, tokens, scan_result>>

\* one iteration of the `for statement in statements` loop of Interpreter::interpret
Interpret ==
    /\ phase = "interpret"
    /\ pc <= Len(program.statements)
    /\ LET r == self_execute_statement(interpreter, program.statements[pc], FALSE) IN
           /\ interpreter' = NoteFlow(r.st, "interpret", r)
           /\ error' = r.err
           /\ phase' = IF r.err = Ok THEN "interpret" ELSE "done"
           /\ pc' = IF r.err = Ok THEN pc + 1 ELSE pc
    /\ UNCHANGED <<frames, env_call, program, resolver_error, scanner, tokens, scan_result>>

\* the Ok(()) that ends Interpreter::interpret
InterpretReturn ==
    /\ phase = "interpret"
    /\ pc > Len(program.statements)
    /\ phase' = "done"
    /\ UNCHANGED <<frames, env_call, program, pc, resolver_error, error, interpreter, scanner, tokens, scan_result>>

Next == Resolve \/ Interpret \/ InterpretReturn

Spec == Init /\ [][Next]_vars

(***************************************************************************)
(* Properties of the Environment methods                                   *)
(***************************************************************************)
RECURSIVE LinksOut(_, _, _)
\* The frame reached by following exactly d enclosing links from frame f
\* (0 when the chain is shorter than d)
LinksOut(fs, f, d) ==
    IF f = 0 \/ d = 0 THEN f ELSE LinksOut(fs, fs[f].enclosing, d - 1)

\* C4: whenever assign_at(name, v, d), with d inside the chain, returns true, a
\* following get_at(name, d) from the same frame returns v, and every frame
\* other than the one d links out from the starting frame is unchanged.
C4_AssignThenGetSameFrame ==
    [][(/\ env_call'.op = "assign_at"
        /\ env_call'.ret
        /\ LinksOut(frames, env_call'.self, env_call'.distance) # 0)
       => (/\ get_at(frames', env_call'.self, env_call'.name, env_call'.distance)
                = env_call'.value
           /\ \A f \in DOMAIN frames :
                f # LinksOut(frames, env_call'.self, env_call'.distance)
                    => frames'[f] = frames[f])]_vars

GlobalValue(name) == MapGet(interpreter.frames[globals].values, name)

Finished(family) == program.family = family /\ phase = "done"

\* C1: a run of the shadowing program is accepted by the resolver, raises no
\* error, and prints the inner value from inside the inner block and then the
\* outer value after the inner block has closed.
C1_ShadowedReads ==
    Finished("shadow")
        => /\ resolver_error = ResolverOk
           /\ error = Ok
           /\ interpreter.output = <<Number(program.inner), Number(program.outer)>>

\* C2: a run of the counter program is accepted by the resolver, raises no
\* error, and prints start + 1, start + 2, .. for the repeated calls of the
\* first closure and start + 1 for the call of the second, independent one.
C2_CounterIncreases ==
    Finished("counter")
        => /\ resolver_error = ResolverOk
           /\ error = Ok
           /\ interpreter.output =
                [i \in 1 .. program.ncalls |-> Number(program.start + i)]
                    \o <<Number(program.start + 1)>>

\* C3: every lookup that used a resolved distance d read the frame exactly d
\* enclosing links out from the frame active at the lookup, and that frame
\* binds the name looked up.
C3_ReadsExactlyDLinks ==
    \A i \in DOMAIN interpreter.reads :
        LET r == interpreter.reads[i]
            exact == LinksOut(interpreter.frames, r.self, r.distance)
        IN  /\ r.target = exact
            /\ exact # 0
            /\ r.name \in DOMAIN interpreter.frames[exact].values

\* C6: a call with a number of arguments other than the callee's arity ends
\* the run with WrongArity{original = the arity, user = the number supplied};
\* nothing of the body was printed, no body was entered and no instance made.
C6_WrongArityReportsArity ==
    (Finished("arity") /\ program.m # program.n)
        => /\ error = WrongArity(program.n, program.m)
           /\ interpreter.output = <<>>
           /\ interpreter.calls = <<>>
           /\ interpreter.instances = <<>>

\* C7: `this` at the top level of a method body yields the instance: the field
\* written through `this` in init is read back from the constructed instance,
\* and a method returning `this` returns the instance it was reached through.
C7_ThisIsTheInstance ==
    Finished("this")
        => /\ resolver_error = ResolverOk
           /\ error = Ok
           /\ program.use = "init" => interpreter.output = <<Number(program.v)>>
           /\ program.use = "method" =>
                (GlobalValue("c").t = "Instance" /\ GlobalValue("t") = GlobalValue("c"))

\* C8: a constructor call with the right number of arguments evaluates to the
\* newly created instance whatever the init body returns, and init, own or
\* inherited, was entered exactly once, bound to that instance, with the
\* arguments of the call.
C8_ConstructorYieldsInstance ==
    Finished("construct")
        => /\ resolver_error = ResolverOk
           /\ error = Ok
           /\ Len(interpreter.instances) = 1
           /\ interpreter.instances[1].class.name = "C"
           /\ GlobalValue("c") = Instance(1)
           /\ Len(interpreter.calls) = 1
           /\ interpreter.calls[1].name = "init"
           /\ interpreter.calls[1].arguments = <<Number(program.v)>>
           /\ MapGet(interpreter.frames[interpreter.calls[1].closure].values, "this")
                = Instance(1)

\* C9: a direct call of the init method obtained from an instance returns that
\* instance, however the body ends.
C9_BoundInitReturnsInstance ==
    Finished("bound_init")
        => /\ resolver_error = ResolverOk
           /\ error = Ok
           /\ GlobalValue("c").t = "Instance"
           /\ GlobalValue("r") = GlobalValue("c")

\* C10: a call of a function that is not an initializer, a method reached
\* through an instance included, evaluates to the payload of the `return` that
\* ended the body, and to Nil when the body ended without one.
C10_CallYieldsReturnPayload ==
    Finished("return")
        => /\ resolver_error = ResolverOk
           /\ error = Ok
           /\ GlobalValue("r") = program.body.returns

\* C11: every bind gives a function whose closure is a fresh frame that
\* encloses the method's declared closure and binds exactly `this` to the
\* instance; the method kept by the class is as declared, and the three binds
\* (two to one instance, one to another) have three different frames.
C11_BindIsFresh ==
    Finished("bind")
        => /\ error = Ok
           /\ LET a == GlobalValue("a")
                  b == GlobalValue("b")
                  x == GlobalValue("x").c
                  y == GlobalValue("y").c
                  z == GlobalValue("z").c
                  declared == find_method(GlobalValue("C").c.class, program.method).c
                  ThisFrame(instance) ==
                      [values |-> MapInsert(EmptyMap, "this", instance),
                       enclosing |-> declared.closure]
              IN  /\ a.t = "Instance" /\ b.t = "Instance" /\ a # b
                  /\ Cardinality({x.closure, y.closure, z.closure}) = 3
                  /\ interpreter.frames[x.closure] = ThisFrame(a)
                  /\ interpreter.frames[y.closure] = ThisFrame(a)
                  /\ interpreter.frames[z.closure] = ThisFrame(b)
                  /\ declared = LoxFunction(globals, program.method, program.method = "init",
                                            <<>>, <<>>)
                  /\ "this" \notin DOMAIN interpreter.frames[declared.closure].values
                  /\ \A f \in {x, y, z} :
                        /\ f.name = declared.name
                        /\ f.params = declared.params
                        /\ f.block = declared.block

\* an inherited method has been bound twice to one instance and once to another
C11_Witness ==
    /\ Finished("bind")
    /\ error = Ok
    /\ program.inherited
    /\ GlobalValue("x") # None /\ GlobalValue("y") # None /\ GlobalValue("z") # None
    /\ GlobalValue("x").c.closure # GlobalValue("y").c.closure

\* C12: a call of greet on an instance of A < B < G runs A's own greet when A
\* defines one, otherwise the greet of the nearest class up the chain that
\* defines one, and fails as an absent property only when no class does.
C12_MethodLookupChain ==
    Finished("lookup")
        => IF program.definers = {}
           THEN /\ error = [e |-> "NotAProperty", class_name |-> "A", field |-> "greet"]
                /\ interpreter.output = <<>>
                /\ find_method(GlobalValue("A").c.class, "greet") = None
           ELSE /\ error = Ok
                /\ interpreter.output =
                        <<Number(IF "A" \in program.definers THEN 1
                                 ELSE IF "B" \in program.definers THEN 2 ELSE 3)>>
                /\ Len(interpreter.calls) = 1

\* greet was found two classes up the chain from the instance's class
C12_Witness ==
    /\ Finished("lookup")
    /\ error = Ok
    /\ program.definers = {"G"}
    /\ interpreter.output = <<Number(3)>>

\* C13: a set on an instance stores the value in that instance's own fields
\* only, also under the name of a method of its class chain: a later get of
\* the name on that instance gives the stored value, the other instance has no
\* field and still reaches the method, and the class keeps the method as declared.
C13_SetWritesOwnFields ==
    Finished("set")
        => /\ error = Ok
           /\ interpreter.output = <<Number(program.v), Number(1)>>
           /\ Len(interpreter.instances) = 2
           /\ interpreter.instances[1].fields = MapInsert(EmptyMap, program.name, Number(program.v))
           /\ interpreter.instances[2].fields = EmptyMap
           /\ \A i \in 1 .. 2 : interpreter.instances[i].class = GlobalValue("C").c.class
           /\ find_method(GlobalValue("C").c.class, "m").c
                = LoxFunction(globals, "m", FALSE, <<>>, <<SPrint(ENumber(1))>>)

\* a field named like the inherited method was set on one instance and read
\* back, and the other instance still called the method
C13_Witness ==
    /\ Finished("set")
    /\ error = Ok
    /\ program.name = "m"
    /\ program.inherited
    /\ interpreter.output = <<Number(2), Number(1)>>

\* C14: `!v` evaluates, for a v of every kind of runtime value, to
\* Boolean(true) exactly when v is not truthy.
C14_BangFollowsTruthiness ==
    Finished("bang")
        => /\ error = Ok
           /\ interpreter.output = <<Boolean(~program.truthy)>>

\* C15: in a for loop that runs, every iteration, whether its body ends with
\* `continue` or normally, is followed by exactly one evaluation of the
\* increment and then by the next test of the condition: what the condition,
\* the body and the increment print is test, (body,) increment, test, ..
C15_ContinueRunsIncrementOnce ==
    (Finished("for") /\ resolver_error = ResolverOk)
        => /\ error = Ok
           /\ LET trace[i \in 0 .. program.limit] ==
                      IF i = program.limit THEN <<String("test")>>
                      ELSE <<String("test")>>
                            \o (IF i \in program.skips THEN <<>> ELSE <<Number(i)>>)
                            \o <<String("increment")>> \o trace[i + 1]
              IN  interpreter.output = trace[0]

\* a loop whose every iteration ended with `continue` has run to its end
C15_Witness ==
    /\ Finished("for")
    /\ error = Ok
    /\ program.limit = MaxIterations
    /\ program.skips = 0 .. MaxIterations - 1
    /\ Len(interpreter.output) = 2 * MaxIterations + 1

\* C16: a `break` inside nested blocks and an if-branch ends the innermost
\* loop only: in every round of the outer loop the inner loop tests its
\* condition `at` times, its body prints in all but the last of them (the rest
\* of the body is skipped and the condition is not tested again), and the
\* outer loop goes on: it prints after the inner loop in each of its rounds.
C16_BreakEndsInnermostLoop ==
    (Finished("break") /\ resolver_error = ResolverOk)
        => /\ error = Ok
           /\ LET inner[j \in 1 .. program.at] ==
                      IF j = program.at THEN <<String("test")>>
                      ELSE <<String("test"), Number(j)>> \o inner[j + 1]
                  outer[i \in 0 .. program.rounds] ==
                      IF i = program.rounds THEN <<>>
                      ELSE inner[1] \o <<Number(10 + i)>> \o outer[i + 1]
              IN  interpreter.output = outer[0]

\* the inner while loop was broken out of, in its second iteration and from
\* inside nested blocks, in every round of the outer while loop
C16_Witness ==
    /\ Finished("break")
    /\ error = Ok
    /\ program.outer = "while" /\ program.inner = "while"
    /\ program.rounds = MaxIterations /\ program.at = 2 /\ program.nest = MaxNest
    /\ Len(interpreter.output) = 4 * MaxIterations

\* C17: `break` and `continue` raise NotInLoop exactly when they are not inside
\* a while or for body of the running function activation: at top level, under
\* blocks and if-branches only, and in a function body without a loop of its
\* own even when the call is made from inside a loop; inside a loop body they
\* raise nothing and the program goes on.
C17_NotInLoopOutsideLoops ==
    (Finished("jump") /\ resolver_error = ResolverOk)
        => IF program.place \in {"while", "for", "loop in function"}
           THEN /\ error = Ok
                /\ interpreter.output = <<Number(1)>>
           ELSE /\ error = [e |-> "NotInLoop"]
                /\ interpreter.output = <<>>

\* a function without a loop, called from inside a loop, has executed `break`
C17_Witness ==
    /\ Finished("jump")
    /\ program.place = "function in loop"
    /\ program.jump = SBreak
    /\ error = [e |-> "NotInLoop"]
    /\ Len(interpreter.calls) = 1

\* C18: interpret runs the top-level statements in order and ends at the first
\* one that raises: the run ends with that error at that statement, nothing
\* after the raising point has run (no later print, no later binding), and the
\* bindings made before it are still in the global frame.
C18_InterpretStopsAtFirstError ==
    Finished("stop")
        => /\ error = program.raises
           /\ pc = 4
           /\ interpreter.output = <<Number(program.v)>> \o program.prints
           /\ GlobalValue("a") = Number(program.v)
           /\ GlobalValue("f") # None
           /\ GlobalValue("b") = None
           /\ interpreter.environment_stack = <<globals>>

\* the error was raised two calls deep, after earlier statements had printed
C18_Witness ==
    /\ Finished("stop")
    /\ error = UndefinedVariable("u")
    /\ interpreter.output = <<Number(1), Number(5), Number(4)>>
    /\ GlobalValue("a") = Number(1)

\* C19: the resolver fails with ReturnNotInFunction exactly when the `return`
\* is not inside any function or method body; in particular a `return` of an
\* outer function that follows a nested function or class declaration resolves.
C19_ReturnNotInFunctionExactly ==
    [][(phase = "resolve" /\ program.family = "return scope")
        => (resolver_error' = [e |-> "ReturnNotInFunction"] <=> ~program.inside)]_vars

\* C20: the resolver fails with VariableAlreadyExists when a name is declared
\* again in the block whose scope map already holds it, and resolves without
\* error when the second declaration is in a nested block or of another name.
C20_RedeclareInSameBlockFails ==
    [][(phase = "resolve" /\ program.family = "redeclare")
        => resolver_error' = IF program.where = "same"
                             THEN [e |-> "VariableAlreadyExists", name |-> "a"]
                             ELSE ResolverOk]_vars

\* a class was declared under the name of a variable of the same block, the
\* block itself nested in others
C20_Witness ==
    /\ program.family = "redeclare"
    /\ program.first = "var" /\ program.second = "class"
    /\ program.where = "same"
    /\ program.nest = MaxNest
    /\ resolver_error = [e |-> "VariableAlreadyExists", name |-> "a"]

\* C21: a call of a native function with an argument list of its registered
\* arity ends the print statement either with a value or with a Native runtime
\* error; the process never panics.
C21_NativeCallsNeverCrash ==
    Finished("native")
        => \/ error = Ok /\ Len(interpreter.output) = 1
           \/ error.e = "Native"

(***************************************************************************)
(* Properties of the Scanner                                               *)
(***************************************************************************)
\* C22: every token that scan_tokens has collected carries the line on which
\* it ends, 1 plus the number of line breaks in the source before the token's
\* last byte, a line break being a "\n", a "\r\n" pair or a "\r" alone; and a
\* source of nothing but whitespace, or of nothing but a `//` comment, yields
\* no token.
C22_TokenCarriesItsLine ==
    LET source == scanner.reader.inner
        line_break(j) ==
            \/ source[j] = "\n"
            \/ source[j] = "\r" /\ (j = Len(source) \/ source[j + 1] # "\n")
    IN
    /\ \A i \in DOMAIN tokens :
            tokens[i].token.line
                = 1 + Cardinality({j \in 1 .. tokens[i].end - 1 : line_break(j)})
    /\ (\A j \in DOMAIN source : source[j] \in {" ", "\n", "\r"}) => tokens = <<>>
    /\ (/\ Len(source) >= 2
        /\ source[1] = "/" /\ source[2] = "/"
        /\ \A j \in DOMAIN source : source[j] # "\n") => tokens = <<>>

(***************************************************************************)
(* Properties of assignment and of the depth table                         *)
(***************************************************************************)
\* C23: in a run that the resolver has prepared, the assignment `x = rhs`
\* completes and writes the value of rhs into the binding of x, which was
\* declared gap + 1 blocks out from the assignment, whether rhs is the variable
\* y of the innermost block or a literal: y keeps its value and x has the new
\* one afterwards.
C23_AssignWritesTargetBinding ==
    (Finished("assign") /\ interpreter.locals # EmptyMap /\ program.target = "x")
        => /\ error = Ok
           /\ interpreter.output
                = <<Number(2), Number(IF program.rhs = "y" THEN 2 ELSE 7)>>

\* C24: in a run that the resolver has prepared, the assignment `u = rhs` to
\* the undeclared u ends the run with the runtime error UndefinedVariable(u),
\* and no frame binds u.
C24_AssignUndeclaredFails ==
    (Finished("assign") /\ interpreter.locals # EmptyMap /\ program.target = "u")
        => /\ error = UndefinedVariable("u")
           /\ \A f \in DOMAIN interpreter.frames :
                "u" \notin DOMAIN interpreter.frames[f].values

\* C25: the resolver records, for a reference or an assignment target that
\* stands `inner` blocks inside the block declaring the name, the distance
\* `inner`; and a reference to a name that no enclosing block declares is
\* looked up in the global frame when the program runs: the first statement
\* to print prints the global's value.
C25_DistanceCountsScopeMaps ==
    [][program.family = "depth"
        => /\ phase = "resolve"
                => /\ resolver_error' = ResolverOk
                   /\ program.second \in DOMAIN interpreter'.locals
                   /\ interpreter'.locals[program.second] = program.inner
           /\ (phase = "interpret" /\ phase' = "done")
                => /\ interpreter'.output # <<>>
                   /\ interpreter'.output[1] = Number(1)]_vars

\* C26: in a run that the resolver has prepared, the depth table has no entry
\* for the reference to the global `a` and the entry `inner` for the reference
\* to the block's `a`, also when the two references are on the same line.
C26_DepthTableKeyedByOccurrence ==
    (program.family = "depth" /\ program.use = "read" /\ interpreter.locals # EmptyMap)
        => /\ program.first \notin DOMAIN interpreter.locals
           /\ program.second \in DOMAIN interpreter.locals
           /\ interpreter.locals[program.second] = program.inner

(***************************************************************************)
(* Properties of declarations inside blocks                                *)
(***************************************************************************)
\* C27: in a run that the resolver has prepared, a function declared inside a
\* block is called by its name from the same block, and the global frame gains
\* no binding for the name: a variable of that name declared around the block
\* keeps its value.
C27_FunctionBoundInBlockFrame ==
    (/\ Finished("declare")
     /\ program.kind = "fun"
     /\ program.nest >= 1
     /\ interpreter.locals # EmptyMap)
        => /\ error = Ok
           /\ interpreter.output = <<Number(5)>> \o (IF program.outer THEN <<Number(1)>> ELSE <<>>)
           /\ GlobalValue("d") = IF program.outer /\ program.nest = 1 THEN Number(1) ELSE None

\* C28: a class declared at top level or, in a run that the resolver has
\* prepared, inside a block is bound to its Constructor in the frame of the
\* declaration: printing the name from there prints the constructor, and a
\* variable of that name declared around the block keeps its value.
C28_ClassBoundWhereDeclared ==
    (/\ Finished("declare")
     /\ program.kind = "class"
     /\ (program.nest = 0 \/ interpreter.locals # EmptyMap))
        => /\ error = Ok
           /\ interpreter.output
                = <<Callable(Constructor(Class("d", EmptyMap, Absent), 0))>>
                    \o (IF program.outer THEN <<Number(1)>> ELSE <<>>)

(***************************************************************************)
(* Properties of the environment stack and of the control-flow signals     *)
(***************************************************************************)
\* C29: every top-level call of execute_statement, whatever it executes inside
\* and whether it ends with a control-flow signal or with an error, leaves the
\* environment stack as it found it, holding the global frame only.
C29_EnvironmentStackRestored ==
    [][/\ interpreter'.environment_stack = interpreter.environment_stack
       /\ interpreter'.environment_stack = <<globals>>]_vars

\* an error was raised in a function body called from inside a block, and the
\* stack holds the global frame only
C29_Witness ==
    /\ Finished("stop")
    /\ program.failing = "{ print 5; f(); print 6; }"
    /\ error = UndefinedVariable("u")
    /\ Len(interpreter.calls) = 1
    /\ Len(interpreter.frames) = 3
    /\ interpreter.environment_stack = <<globals>>

\* C30: in every run, no ControlFlow that a function body hands to
\* evaluate_lox_function and none that a top-level statement hands to the loop
\* of interpret is BreakLoop or ContinueLoop: each is Normal or Return.
C30_LoopSignalsNeverEscape ==
    \A i \in DOMAIN interpreter.flows : interpreter.flows[i].c \in {"Normal", "Return"}

\* a `continue` was executed inside nested blocks in a loop of a function's
\* body, the function returned, and the program went on to its last statement
C30_Witness ==
    /\ Finished("jump")
    /\ program.place = "loop in function"
    /\ program.jump = SContinue
    /\ error = Ok
    /\ interpreter.output = <<Number(1)>>
    /\ \E i \in DOMAIN interpreter.flows :
            interpreter.flows[i] = [at |-> "evaluate_lox_function", c |-> "Normal"]

====
